---- MODULE Spec2Model ----
(***************************************************************************)
(* Rolodex: the heuristic extractor RolodexApp.heuristic_parse of          *)
(* src/rolodex.py, modelled pass by pass.  Text is a TLA+ string; the      *)
(* character at position i of s is the one-character string Ch(s, i).      *)
(* Regular expressions are syntax trees matched by a backtracking matcher  *)
(* that lists the end positions of a pattern in the order Python's re      *)
(* module tries them, so the head of the list is the match Python returns. *)
(***************************************************************************)
EXTENDS Integers, Sequences, FiniteSets, TLC

\* ------------------------------------------------------------------------
\* Bounds of the model
\* ------------------------------------------------------------------------
MaxLines == 2

\* ------------------------------------------------------------------------
\* Characters and the str methods the extractor uses
\* ------------------------------------------------------------------------
Ch(s, i) == SubSeq(s, i, i)

DigitChars == {"0", "1", "2", "3", "4", "5", "6", "7", "8", "9"}

LowerChars == {"a", "b", "c", "d", "e", "f", "g", "h", "i", "j", "k", "l", "m",
               "n", "o", "p", "q", "r", "s", "t", "u", "v", "w", "x", "y", "z"}

UpperChars == {"A", "B", "C", "D", "E", "F", "G", "H", "I", "J", "K", "L", "M",
               "N", "O", "P", "Q", "R", "S", "T", "U", "V", "W", "X", "Y", "Z"}

\* \w of the re module (ASCII part)
WordChars == LowerChars \cup UpperChars \cup DigitChars \cup {"_"}

\* \s of the re module and the whitespace of str.strip / str.split;
\* the newline never occurs inside a line
SpaceChars == {" ", "\t"}

LowerPairs == {<<"A", "a">>, <<"B", "b">>, <<"C", "c">>, <<"D", "d">>, <<"E", "e">>,
               <<"F", "f">>, <<"G", "g">>, <<"H", "h">>, <<"I", "i">>, <<"J", "j">>,
               <<"K", "k">>, <<"L", "l">>, <<"M", "m">>, <<"N", "n">>, <<"O", "o">>,
               <<"P", "p">>, <<"Q", "q">>, <<"R", "r">>, <<"S", "s">>, <<"T", "t">>,
               <<"U", "u">>, <<"V", "v">>, <<"W", "w">>, <<"X", "x">>, <<"Y", "y">>,
               <<"Z", "z">>}

LowerCh(c) == IF c \in UpperChars
              THEN (CHOOSE p \in LowerPairs : p[1] = c)[2]
              ELSE c

UpperCh(c) == IF c \in LowerChars
              THEN (CHOOSE p \in LowerPairs : p[2] = c)[1]
              ELSE c

RECURSIVE StrLower(_)
\* str.lower(), computed by halves
StrLower(s) ==
    IF Len(s) = 0 THEN ""
    ELSE IF Len(s) = 1 THEN LowerCh(s)
    ELSE StrLower(SubSeq(s, 1, Len(s) \div 2))
         \o StrLower(SubSeq(s, Len(s) \div 2 + 1, Len(s)))

\* str.capitalize(): first character upper-cased, the rest lower-cased
StrCapitalize(s) == IF s = "" THEN ""
                    ELSE UpperCh(Ch(s, 1)) \o StrLower(SubSeq(s, 2, Len(s)))

\* str.strip(): from the first to the last character that is not whitespace
StrStrip(s) ==
    LET solid == {i \in 1..Len(s) : Ch(s, i) \notin SpaceChars}
    IN IF solid = {} THEN ""
       ELSE SubSeq(s, CHOOSE a \in solid : \A b \in solid : a <= b,
                      CHOOSE a \in solid : \A b \in solid : a >= b)

\* sub in s
StrContains(s, sub) == \E i \in 1..(Len(s) - Len(sub) + 1) :
                           SubSeq(s, i, i + Len(sub) - 1) = sub

\* any(char.isdigit() for char in s)
HasDigit(s) == \E i \in 1..Len(s) : Ch(s, i) \in DigitChars

\* the pieces of s between the characters of seps; empty pieces are kept
SplitOn(s, seps) ==
    LET cuts == {i \in 1..Len(s) : Ch(s, i) \in seps}
        \* the k-th cut, cut 0 being before s and the last one after it
        CutAt(k) == IF k = 0 THEN 0
                    ELSE IF k > Cardinality(cuts) THEN Len(s) + 1
                    ELSE CHOOSE c \in cuts : Cardinality({b \in cuts : b < c}) = k - 1
    IN [k \in 1..(Cardinality(cuts) + 1) |-> SubSeq(s, CutAt(k - 1) + 1, CutAt(k) - 1)]

\* str.split('\n')
SplitNewline(s) == SplitOn(s, {"\n"})

\* str.split(): cut at runs of whitespace, no empty token
StrSplit(s) == SelectSeq(SplitOn(s, SpaceChars), LAMBDA t : t # "")

RECURSIVE StrJoin(_, _)
\* sep.join(parts)
StrJoin(sep, parts) ==
    IF Len(parts) = 0 THEN ""
    ELSE IF Len(parts) = 1 THEN parts[1]
    ELSE parts[1] \o sep \o StrJoin(sep, Tail(parts))

\* k in tokens
InSeq(x, seq) == \E i \in 1..Len(seq) : seq[i] = x

\* ------------------------------------------------------------------------
\* Regular expressions: syntax trees and Python's backtracking order
\* ------------------------------------------------------------------------
RSet(cs) == [t |-> "set", cs |-> cs]
RCat(rs) == [t |-> "cat", rs |-> rs]
RAlt(rs) == [t |-> "alt", rs |-> rs]
ROpt(r) == [t |-> "opt", r |-> r]
RStar(r) == [t |-> "star", r |-> r]
RPlus(r) == RCat(<<r, RStar(r)>>)
RRep(r, n) == RCat([k \in 1..n |-> r])
RLit(str) == RCat([k \in 1..Len(str) |-> RSet({Ch(str, k)})])
RWordBoundary == [t |-> "wb"]

IsWordAt(s, i) == i >= 1 /\ i <= Len(s) /\ Ch(s, i) \in WordChars

RECURSIVE Match(_, _, _)
RECURSIVE MatchCat(_, _, _, _)
RECURSIVE MatchCatEach(_, _, _, _)
RECURSIVE MatchAlt(_, _, _, _)
RECURSIVE MatchStarEach(_, _, _, _)

\* The positions at which a match of r that starts at position i of s can
\* end (the position after its last character), in the order in which the
\* backtracking matcher reaches them: greedy repetition and option first,
\* alternatives left to right.
Match(r, s, i) ==
    CASE r.t = "set" -> IF i <= Len(s) /\ Ch(s, i) \in r.cs THEN <<i + 1>> ELSE <<>>
      [] r.t = "wb" -> IF IsWordAt(s, i - 1) # IsWordAt(s, i) THEN <<i>> ELSE <<>>
      [] r.t = "cat" -> MatchCat(r.rs, 1, s, i)
      [] r.t = "alt" -> MatchAlt(r.rs, 1, s, i)
      [] r.t = "opt" -> Match(r.r, s, i) \o <<i>>
      [] r.t = "star" -> MatchStarEach(r.r, s, i, Match(r.r, s, i)) \o <<i>>

MatchCat(rs, k, s, i) ==
    IF k > Len(rs) THEN <<i>>
    ELSE MatchCatEach(rs, k, s, Match(rs[k], s, i))

MatchCatEach(rs, k, s, ends) ==
    IF ends = <<>> THEN <<>>
    ELSE MatchCat(rs, k + 1, s, Head(ends)) \o MatchCatEach(rs, k, s, Tail(ends))

MatchAlt(rs, k, s, i) ==
    IF k > Len(rs) THEN <<>>
    ELSE Match(rs[k], s, i) \o MatchAlt(rs, k + 1, s, i)

MatchStarEach(r, s, i, ends) ==
    IF ends = <<>> THEN <<>>
    ELSE (IF Head(ends) > i THEN Match(RStar(r), s, Head(ends)) ELSE <<>>)
         \o MatchStarEach(r, s, i, Tail(ends))

RECURSIVE Nullable(_)
\* r can match the empty string
Nullable(r) ==
    CASE r.t = "set" -> FALSE
      [] r.t = "wb" -> TRUE
      [] r.t = "cat" -> \A k \in 1..Len(r.rs) : Nullable(r.rs[k])
      [] r.t = "alt" -> \E k \in 1..Len(r.rs) : Nullable(r.rs[k])
      [] r.t = "opt" -> TRUE
      [] r.t = "star" -> TRUE

RECURSIVE FirstChars(_)
RECURSIVE FirstCharsCat(_, _)
\* the characters a non-empty match of r can begin with
FirstChars(r) ==
    CASE r.t = "set" -> r.cs
      [] r.t = "wb" -> {}
      [] r.t = "cat" -> FirstCharsCat(r.rs, 1)
      [] r.t = "alt" -> UNION {FirstChars(r.rs[k]) : k \in 1..Len(r.rs)}
      [] r.t = "opt" -> FirstChars(r.r)
      [] r.t = "star" -> FirstChars(r.r)

FirstCharsCat(rs, k) ==
    IF k > Len(rs) THEN {}
    ELSE FirstChars(rs[k]) \cup (IF Nullable(rs[k]) THEN FirstCharsCat(rs, k + 1) ELSE {})

RECURSIVE RequiredChars(_)
\* characters that occur in every match of r
RequiredChars(r) ==
    CASE r.t = "set" -> IF Cardinality(r.cs) = 1 THEN r.cs ELSE {}
      [] r.t = "wb" -> {}
      [] r.t = "cat" -> UNION {RequiredChars(r.rs[k]) : k \in 1..Len(r.rs)}
      [] r.t = "alt" -> {c \in RequiredChars(r.rs[1]) :
                            \A k \in 1..Len(r.rs) : c \in RequiredChars(r.rs[k])}
      [] r.t = "opt" -> {}
      [] r.t = "star" -> {}

\* re.compile(pattern): the syntax tree with what the search uses to skip
\* positions where no match can start
ReCompile(r) ==
    [ast |-> r, nullable |-> Nullable(r), first |-> FirstChars(r),
     required |-> RequiredChars(r)]

\* a match of the compiled pattern p can start at position i of s
CanStartAt(p, s, i) ==
    /\ p.nullable \/ (i <= Len(s) /\ Ch(s, i) \in p.first)
    /\ Match(p.ast, s, i) # <<>>

RECURSIVE FirstStart(_, _, _, _)
\* the leftmost position in lo..hi where a match can start, or 0
FirstStart(p, s, lo, hi) ==
    IF lo > hi THEN 0
    ELSE IF lo = hi THEN (IF CanStartAt(p, s, lo) THEN lo ELSE 0)
    ELSE LET mid == (lo + hi) \div 2
             left == FirstStart(p, s, lo, mid)
         IN IF left # 0 THEN left ELSE FirstStart(p, s, mid + 1, hi)

\* pattern.search(s) from position from on: <<start, end>> of the leftmost
\* match (end exclusive), or <<>> when there is none
ReSearch(p, s, from) ==
    IF \E c \in p.required : \A i \in from..Len(s) : Ch(s, i) # c THEN <<>>
    ELSE LET st == FirstStart(p, s, from, Len(s) + 1)
         IN IF st = 0 THEN <<>> ELSE <<st, Head(Match(p.ast, s, st))>>

RECURSIVE ReFindIter(_, _, _)
\* pattern.finditer(s): the non-overlapping matches, left to right
ReFindIter(p, s, from) ==
    LET m == ReSearch(p, s, from)
    IN IF m = <<>> THEN <<>>
       ELSE <<m>> \o ReFindIter(p, s, IF m[2] > m[1] THEN m[2] ELSE m[2] + 1)

\* match.group(0)
Group0(s, m) == SubSeq(s, m[1], m[2] - 1)

\* email_re = [\w\.-]+@[\w\.-]+\.\w+
email_re ==
    ReCompile(RCat(<<RPlus(RSet(WordChars \cup {".", "-"})), RLit("@"),
                     RPlus(RSet(WordChars \cup {".", "-"})), RLit("."),
                     RPlus(RSet(WordChars))>>))

\* the area code alternatives [2-9]1[02-9]|[2-9][02-8]1|[2-9][02-8][02-9]
AreaCode ==
    RAlt(<<RCat(<<RSet(DigitChars \ {"0", "1"}), RSet({"1"}), RSet(DigitChars \ {"1"})>>),
           RCat(<<RSet(DigitChars \ {"0", "1"}), RSet(DigitChars \ {"1", "9"}), RSet({"1"})>>),
           RCat(<<RSet(DigitChars \ {"0", "1"}), RSet(DigitChars \ {"1", "9"}),
                  RSet(DigitChars \ {"1"})>>)>>)

\* the exchange alternatives [2-9]1[02-9]|[2-9][02-9]1|[2-9][02-9]{2}
Exchange ==
    RAlt(<<RCat(<<RSet(DigitChars \ {"0", "1"}), RSet({"1"}), RSet(DigitChars \ {"1"})>>),
           RCat(<<RSet(DigitChars \ {"0", "1"}), RSet(DigitChars \ {"1"}), RSet({"1"})>>),
           RCat(<<RSet(DigitChars \ {"0", "1"}), RSet(DigitChars \ {"1"}),
                  RSet(DigitChars \ {"1"})>>)>>)

\* \s*(?:[.-]\s*)?
PhoneSep ==
    RCat(<<RStar(RSet(SpaceChars)),
           ROpt(RCat(<<RSet({".", "-"}), RStar(RSet(SpaceChars))>>))>>)

\* phone_re: optional country code and area code, exchange, four digits,
\* optional extension
phone_re ==
    ReCompile(RCat(<<ROpt(RCat(<<ROpt(RCat(<<ROpt(RLit("+")), RLit("1"), PhoneSep>>)),
                       RAlt(<<RCat(<<RLit("("), RStar(RSet(SpaceChars)), AreaCode,
                                     RStar(RSet(SpaceChars)), RLit(")")>>),
                              AreaCode>>),
                       PhoneSep>>)),
           Exchange, PhoneSep, RRep(RSet(DigitChars), 4),
           ROpt(RCat(<<RStar(RSet(SpaceChars)),
                       RAlt(<<RLit("#"),
                              RCat(<<RLit("x"), ROpt(RLit("."))>>),
                              RCat(<<RLit("ext"), ROpt(RLit("."))>>),
                              RLit("extension")>>),
                       RStar(RSet(SpaceChars)),
                       RPlus(RSet(DigitChars))>>))>>))

\* (https?://)?(www\.)?  -- what url_re matches before its group 3
UrlPrefix ==
    RCat(<<ROpt(RCat(<<RLit("http"), ROpt(RLit("s")), RLit("://")>>)),
           ROpt(RLit("www."))>>)

\* ([a-zA-Z0-9-]+)  -- group 3 of url_re
UrlLabel == RPlus(RSet(LowerChars \cup UpperChars \cup DigitChars \cup {"-"}))

\* (\.[a-zA-Z]{2,})+  -- what url_re matches after its group 3
UrlTail ==
    RPlus(RCat(<<RLit("."), RRep(RSet(LowerChars \cup UpperChars), 2),
                 RStar(RSet(LowerChars \cup UpperChars))>>))

\* url_re = (https?://)?(www\.)?([a-zA-Z0-9-]+)(\.[a-zA-Z]{2,})+
url_re == ReCompile(RCat(<<UrlPrefix, UrlLabel, UrlTail>>))

RECURSIVE UrlLabelEnd(_, _)
\* the first end of group 3, among ends, after which the tail matches
UrlLabelEnd(s, ends) ==
    IF ends = <<>> THEN 0
    ELSE IF Match(UrlTail, s, Head(ends)) # <<>> THEN Head(ends)
    ELSE UrlLabelEnd(s, Tail(ends))

RECURSIVE UrlGroup3From(_, _)
\* group 3 of the first successful way to match url_re, the prefix ending
\* at one of starts (in backtracking order)
UrlGroup3From(s, starts) ==
    IF starts = <<>> THEN ""
    ELSE LET e == UrlLabelEnd(s, Match(UrlLabel, s, Head(starts)))
         IN IF e # 0 THEN SubSeq(s, Head(starts), e - 1)
            ELSE UrlGroup3From(s, Tail(starts))

\* match.group(3) of url_re.search(s), for a match m = <<start, end>>
UrlGroup3(s, m) == UrlGroup3From(s, Match(UrlPrefix, s, m[1]))

\* zip_re = \b\d{5}(?:-\d{4})?\b
zip_re ==
    ReCompile(RCat(<<RWordBoundary, RRep(RSet(DigitChars), 5),
                     ROpt(RCat(<<RLit("-"), RRep(RSet(DigitChars), 4)>>)),
                     RWordBoundary>>))

\* the keyword lists of heuristic_parse
titles == <<"manager", "director", "president", "vp", "ceo", "cfo", "cto", "chief",
            "engineer", "developer", "consultant", "specialist", "coordinator",
            "administrator", "assistant", "associate", "founder", "owner", "partner",
            "lead", "head">>

company_suffixes == <<"inc", "llc", "ltd", "corp", "corporation", "group", "holdings",
                      "solutions", "systems", "services", "technologies", "company", "co.">>

addr_keywords == <<"st", "street", "ave", "avenue", "rd", "road", "blvd", "boulevard",
                   "dr", "drive", "lane", "suite", "floor", "box", "po box", "plaza",
                   "circle">>

\* ------------------------------------------------------------------------
\* heuristic_parse.  Line indices are 1-based here (0-based in the source),
\* so the source's test i > 0 reads i > 1.
\* ------------------------------------------------------------------------

\* the contact fields of a record (ALL_AVAILABLE_COLS)
ContactKeys == {"First Name", "Last Name", "Company", "Job Title", "E-mail Address",
                "Mobile Phone", "Business Phone", "Address"}

\* new_data = {k: "" for k in CSV_HEADERS}, contact fields only
EmptyData == [k \in ContactKeys |-> ""]

\* lines = [l.strip() for l in text.split('\n') if l.strip()]
NonBlankLines(txt) ==
    LET raw == SplitNewline(txt)
        stripped == [k \in 1..Len(raw) |-> StrStrip(raw[k])]
    IN SelectSeq(stripped, LAMBDA l : l # "")

\* any(k in tokens for k in keywords)
AnyTokenIn(keywords, tokens) == \E k \in 1..Len(keywords) : InSeq(keywords[k], tokens)

\* any(t in line_lower for t in keywords)
AnySubstringIn(keywords, str) == \E k \in 1..Len(keywords) : StrContains(str, keywords[k])

RECURSIVE EmailPass_KeepFirst(_, _, _, _)
\* a variant that never overwrites an email already found
EmailPass_KeepFirst(lines, i, used, d) ==
    IF i > Len(lines) THEN [used |-> used, data |-> d, added |-> {}]
    ELSE IF i \in used THEN EmailPass_KeepFirst(lines, i + 1, used, d)
    ELSE LET emails == ReFindIter(email_re, lines[i], 1)
         IN IF emails # <<>>
            THEN [EmailPass_KeepFirst(lines, i + 1, used \cup {i},
                      IF d["E-mail Address"] = ""
                      THEN [d EXCEPT !["E-mail Address"] = Group0(lines[i], emails[1])]
                      ELSE d)
                    EXCEPT !.added = @ \cup {i}]
            ELSE EmailPass_KeepFirst(lines, i + 1, used, d)

RECURSIVE EmailPass(_, _, _, _)
\* 1. EXTRACT EMAILS: every unused line with a match sets the field anew.
\* Every pass returns, with its results, the set "added" of the indices it
\* passed to used_indices.add.
EmailPass(lines, i, used, d) ==
    IF i > Len(lines) THEN [used |-> used, data |-> d, added |-> {}]
    ELSE IF i \in used THEN EmailPass(lines, i + 1, used, d)
    ELSE LET emails == ReFindIter(email_re, lines[i], 1)
         IN IF emails # <<>>
            THEN [EmailPass(lines, i + 1, used \cup {i},
                            [d EXCEPT !["E-mail Address"] = Group0(lines[i], emails[1])])
                    EXCEPT !.added = @ \cup {i}]
            ELSE EmailPass(lines, i + 1, used, d)

\* a variant that tests the fax tokens before the business tokens
PhoneType_FaxFirst(context) ==
    IF AnySubstringIn(<<"m:", "mob", "cell", "c:">>, context) THEN "mobile"
    ELSE IF StrContains(context, "f:") \/ StrContains(context, "fax") THEN "fax"
    ELSE IF AnySubstringIn(<<"o:", "off", "t:", "tel", "d:", "dir", "ph">>, context)
         THEN "business"
    ELSE "unknown"

\* a variant without the fax class
PhoneType_FaxKept(context) ==
    IF AnySubstringIn(<<"m:", "mob", "cell", "c:">>, context) THEN "mobile"
    ELSE IF AnySubstringIn(<<"o:", "off", "t:", "tel", "d:", "dir", "ph">>, context)
         THEN "business"
    ELSE "unknown"

\* the context classification of a phone match
PhoneType(context) ==
    IF AnySubstringIn(<<"m:", "mob", "cell", "c:">>, context) THEN "mobile"
    ELSE IF AnySubstringIn(<<"o:", "off", "t:", "tel", "d:", "dir", "ph">>, context)
         THEN "business"
    ELSE IF StrContains(context, "f:") \/ StrContains(context, "fax") THEN "fax"
    ELSE "unknown"

\* ptype of the match m of line: context = line[:match.start()].lower()
MatchType(line, m) == PhoneType(StrLower(SubSeq(line, 1, m[1] - 1)))

RECURSIVE KeptPhones(_, _)
\* the (ptype, number) pairs appended to found_phones for the matches ms
\* of one line
KeptPhones(line, ms) ==
    IF ms = <<>> THEN <<>>
    ELSE LET ptype == MatchType(line, Head(ms))
         IN (IF ptype # "fax" THEN <<<<ptype, StrStrip(Group0(line, Head(ms)))>>>> ELSE <<>>)
            \o KeptPhones(line, Tail(ms))

LinePhones(line) == KeptPhones(line, ReFindIter(phone_re, line, 1))

RECURSIVE PhonePass_SkipUsed(_, _, _)
\* a variant that skips the used lines, as the other passes do
PhonePass_SkipUsed(lines, i, used) ==
    IF i > Len(lines) THEN [used |-> used, found_phones |-> <<>>, added |-> {}]
    ELSE IF i \in used THEN PhonePass_SkipUsed(lines, i + 1, used)
    ELSE LET kept == LinePhones(lines[i])
             rest == PhonePass_SkipUsed(lines, i + 1,
                                        IF kept # <<>> THEN used \cup {i} ELSE used)
         IN [rest EXCEPT !.found_phones = kept \o @,
                         !.added = IF kept # <<>> THEN @ \cup {i} ELSE @]

RECURSIVE PhonePass(_, _, _)
\* 2. EXTRACT PHONES: the scan of all the lines, used or not; a line with
\* a kept match is marked used
PhonePass(lines, i, used) ==
    IF i > Len(lines) THEN [used |-> used, found_phones |-> <<>>, added |-> {}]
    ELSE LET kept == LinePhones(lines[i])
             rest == PhonePass(lines, i + 1, IF kept # <<>> THEN used \cup {i} ELSE used)
         IN [rest EXCEPT !.found_phones = kept \o @,
                         !.added = IF kept # <<>> THEN @ \cup {i} ELSE @]

RECURSIVE DistributePhones_FirstWins(_, _)
\* a variant in which the first number of a type is kept
DistributePhones_FirstWins(found, d) ==
    IF found = <<>> THEN d
    ELSE DistributePhones_FirstWins(Tail(found),
            IF Head(found)[1] = "mobile" /\ d["Mobile Phone"] = ""
            THEN [d EXCEPT !["Mobile Phone"] = Head(found)[2]]
            ELSE IF Head(found)[1] = "business" /\ d["Business Phone"] = ""
                 THEN [d EXCEPT !["Business Phone"] = Head(found)[2]]
            ELSE d)

RECURSIVE DistributePhones(_, _)
\* for ptype, number in found_phones: mobile and business overwrite
DistributePhones(found, d) ==
    IF found = <<>> THEN d
    ELSE DistributePhones(Tail(found),
            IF Head(found)[1] = "mobile" THEN [d EXCEPT !["Mobile Phone"] = Head(found)[2]]
            ELSE IF Head(found)[1] = "business"
                 THEN [d EXCEPT !["Business Phone"] = Head(found)[2]]
            ELSE d)

\* a variant that backfills both fields from the unknown numbers in order
BackfillUnknown_Both(found, d) ==
    LET unknowns == SelectSeq(found, LAMBDA p : p[1] = "unknown")
        m == IF unknowns # <<>> /\ d["Mobile Phone"] = ""
             THEN [d EXCEPT !["Mobile Phone"] = unknowns[1][2]]
             ELSE d
        rest == IF unknowns # <<>> /\ d["Mobile Phone"] = "" THEN Tail(unknowns) ELSE unknowns
    IN IF rest # <<>> /\ m["Business Phone"] = ""
       THEN [m EXCEPT !["Business Phone"] = rest[1][2]]
       ELSE m

\* unknowns[0] backfills one empty phone field
BackfillUnknown(found, d) ==
    LET unknowns == SelectSeq(found, LAMBDA p : p[1] = "unknown")
    IN IF unknowns = <<>> THEN d
       ELSE IF d["Mobile Phone"] = "" THEN [d EXCEPT !["Mobile Phone"] = unknowns[1][2]]
       ELSE IF d["Business Phone"] = "" THEN [d EXCEPT !["Business Phone"] = unknowns[1][2]]
       ELSE d

\* a variant without the rule for a sole number
AssignPhones_ByType(found, d) == BackfillUnknown(found, DistributePhones(found, d))

\* Assign Phones based on logic
AssignPhones(found, d) ==
    IF Len(found) = 1 THEN [d EXCEPT !["Mobile Phone"] = found[1][2]]
    ELSE BackfillUnknown(found, DistributePhones(found, d))

RECURSIVE UrlPass(_, _, _, _)
\* 3. EXTRACT URL / WEBSITE: every unused line with a match sets
\* website_domain anew
UrlPass(lines, i, used, domain) ==
    IF i > Len(lines) THEN [used |-> used, website_domain |-> domain, added |-> {}]
    ELSE IF i \in used THEN UrlPass(lines, i + 1, used, domain)
    ELSE LET m == ReSearch(url_re, lines[i], 1)
         IN IF m # <<>>
            THEN [UrlPass(lines, i + 1, used \cup {i},
                          StrCapitalize(UrlGroup3(lines[i], m)))
                    EXCEPT !.added = @ \cup {i}]
            ELSE UrlPass(lines, i + 1, used, domain)

\* Method A's test of a line: zip_re.search(line)
HasZip(line) == ReSearch(zip_re, line, 1) # <<>>

\* a variant of Method B's test with "or" for "and"
HasKeywordOrDigit(line) ==
    AnyTokenIn(addr_keywords, StrSplit(StrLower(line))) \/ HasDigit(line)

\* Method B's test of a line: an address keyword token and a digit
HasKeywordAndDigit(line) ==
    AnyTokenIn(addr_keywords, StrSplit(StrLower(line))) /\ HasDigit(line)

\* a variant of the test of the line above a ZIP line without the keywords
LooksLikeStreet_DigitOnly(prev) == HasDigit(prev)

\* the test of the line above a ZIP line: a digit or an address keyword token
LooksLikeStreet(prev) ==
    HasDigit(prev) \/ AnyTokenIn(addr_keywords, StrSplit(StrLower(prev)))

RECURSIVE AddressPass_Appended(_, _, _)
\* a variant that appends the line above instead of inserting it in front
AddressPass_Appended(lines, i, used) ==
    IF i > Len(lines) THEN [used |-> used, addr_lines |-> <<>>, added |-> {}]
    ELSE IF i \in used THEN AddressPass_Appended(lines, i + 1, used)
    ELSE IF HasZip(lines[i])
         THEN IF i > 1 /\ (i - 1) \notin (used \cup {i}) /\ LooksLikeStreet(lines[i - 1])
              THEN [used |-> used \cup {i, i - 1},
                    addr_lines |-> <<lines[i], lines[i - 1]>>, added |-> {i, i - 1}]
              ELSE [used |-> used \cup {i}, addr_lines |-> <<lines[i]>>, added |-> {i}]
    ELSE IF HasKeywordAndDigit(lines[i])
         THEN [used |-> used \cup {i}, addr_lines |-> <<lines[i]>>, added |-> {i}]
    ELSE AddressPass_Appended(lines, i + 1, used)

RECURSIVE AddressPass(_, _, _)
\* 4. EXTRACT ADDRESS: both methods are tried on each unused line in turn
AddressPass(lines, i, used) ==
    IF i > Len(lines) THEN [used |-> used, addr_lines |-> <<>>, added |-> {}]
    ELSE IF i \in used THEN AddressPass(lines, i + 1, used)
    ELSE IF HasZip(lines[i])
         THEN IF i > 1 /\ (i - 1) \notin (used \cup {i}) /\ LooksLikeStreet(lines[i - 1])
              THEN [used |-> used \cup {i, i - 1},
                    addr_lines |-> <<lines[i - 1], lines[i]>>, added |-> {i, i - 1}]
              ELSE [used |-> used \cup {i}, addr_lines |-> <<lines[i]>>, added |-> {i}]
    ELSE IF HasKeywordAndDigit(lines[i])
         THEN [used |-> used \cup {i}, addr_lines |-> <<lines[i]>>, added |-> {i}]
    ELSE AddressPass(lines, i + 1, used)

\* a variant of the job title test without the limit on the tokens
LooksLikeTitle_AnyLength(line) == AnySubstringIn(titles, StrLower(line))

\* the job title test of a line
LooksLikeTitle(line) ==
    AnySubstringIn(titles, StrLower(line)) /\ Len(StrSplit(line)) < 7

RECURSIVE JobTitlePass_NoSkip(_, _, _, _)
\* a variant that does not skip the used lines
JobTitlePass_NoSkip(lines, i, used, d) ==
    IF i > Len(lines) THEN [used |-> used, data |-> d, added |-> {}]
    ELSE IF LooksLikeTitle(lines[i])
         THEN [used |-> used \cup {i}, data |-> [d EXCEPT !["Job Title"] = lines[i]],
               added |-> {i}]
    ELSE JobTitlePass_NoSkip(lines, i + 1, used, d)

RECURSIVE JobTitlePass(_, _, _, _)
\* 5. EXTRACT JOB TITLE: the first unused line that passes the test
JobTitlePass(lines, i, used, d) ==
    IF i > Len(lines) THEN [used |-> used, data |-> d, added |-> {}]
    ELSE IF i \notin used /\ LooksLikeTitle(lines[i])
         THEN [used |-> used \cup {i}, data |-> [d EXCEPT !["Job Title"] = lines[i]],
               added |-> {i}]
    ELSE JobTitlePass(lines, i + 1, used, d)

\* the company test of a line
HasCompanySuffix(line) == AnyTokenIn(company_suffixes, StrSplit(StrLower(line)))

RECURSIVE CompanyLoop(_, _, _, _)
\* 6. EXTRACT COMPANY: the first unused line with a suffix token
CompanyLoop(lines, i, used, d) ==
    IF i > Len(lines) THEN [used |-> used, data |-> d, added |-> {}]
    ELSE IF i \notin used /\ HasCompanySuffix(lines[i])
         THEN [used |-> used \cup {i}, data |-> [d EXCEPT !["Company"] = lines[i]],
               added |-> {i}]
    ELSE CompanyLoop(lines, i + 1, used, d)

\* a variant that prefers the website domain to a suffix line
CompanyPass_DomainFirst(lines, used, d, domain) ==
    IF domain # ""
    THEN [used |-> used, data |-> [d EXCEPT !["Company"] = domain], added |-> {}]
    ELSE CompanyLoop(lines, 1, used, d)

\* the loop, then the fallback to the website domain
CompanyPass(lines, used, d, domain) ==
    LET r == CompanyLoop(lines, 1, used, d)
    IN IF r.data["Company"] = "" /\ domain # ""
       THEN [r EXCEPT !.data["Company"] = domain]
       ELSE r

\* the name test of a line
LooksLikeName(line) ==
    Len(StrSplit(line)) <= 4 /\ ~HasDigit(line) /\ Len(line) > 2

RECURSIVE NamePass_WholeLine(_, _, _, _)
\* a variant that does not split the line into first and last name
NamePass_WholeLine(lines, i, used, d) ==
    IF i > Len(lines) THEN [used |-> used, data |-> d, added |-> {}]
    ELSE IF i \notin used /\ LooksLikeName(lines[i])
         THEN [used |-> used \cup {i}, added |-> {i},
               data |-> [d EXCEPT !["First Name"] = lines[i]]]
    ELSE NamePass_WholeLine(lines, i + 1, used, d)

RECURSIVE NamePass_Placeholder(_, _, _, _)
\* a variant that fills in a placeholder name when no line passes the test
NamePass_Placeholder(lines, i, used, d) ==
    IF i > Len(lines)
    THEN [used |-> used, data |-> [d EXCEPT !["First Name"] = "New"], added |-> {}]
    ELSE IF i \notin used /\ LooksLikeName(lines[i])
         THEN LET parts == StrSplit(lines[i])
              IN [used |-> used \cup {i}, added |-> {i},
                  data |-> IF Len(parts) >= 2
                           THEN [d EXCEPT !["First Name"] = parts[1],
                                          !["Last Name"] = StrJoin(" ", Tail(parts))]
                           ELSE [d EXCEPT !["First Name"] = lines[i]]]
    ELSE NamePass_Placeholder(lines, i + 1, used, d)

RECURSIVE NamePass(_, _, _, _)
\* 7. EXTRACT NAME: the first unused line that passes the test
NamePass(lines, i, used, d) ==
    IF i > Len(lines) THEN [used |-> used, data |-> d, added |-> {}]
    ELSE IF i \notin used /\ LooksLikeName(lines[i])
         THEN LET parts == StrSplit(lines[i])
              IN [used |-> used \cup {i}, added |-> {i},
                  data |-> IF Len(parts) >= 2
                           THEN [d EXCEPT !["First Name"] = parts[1],
                                          !["Last Name"] = StrJoin(" ", Tail(parts))]
                           ELSE [d EXCEPT !["First Name"] = lines[i]]]
    ELSE NamePass(lines, i + 1, used, d)

\* heuristic_parse(text, data) as one function: the passes in their order
HeuristicParse(txt, d) ==
    LET lines == NonBlankLines(txt)
        e == EmailPass(lines, 1, {}, d)
        ph == PhonePass(lines, 1, e.used)
        pd == AssignPhones(ph.found_phones, e.data)
        u == UrlPass(lines, 1, ph.used, "")
        a == AddressPass(lines, 1, u.used)
        ad == IF a.addr_lines # <<>>
              THEN [pd EXCEPT !["Address"] = StrJoin("\n", a.addr_lines)]
              ELSE pd
        j == JobTitlePass(lines, 1, a.used, ad)
        c == CompanyPass(lines, j.used, j.data, u.website_domain)
    IN NamePass(lines, 1, c.used, c.data).data

\* ------------------------------------------------------------------------
\* Input texts
\* ------------------------------------------------------------------------

\* the scenario text of the specification, section 8
ScenarioText ==
    "Jane Doe\nSenior Engineer\nAcme Corp\njane.doe@acme.com\n(555) 123-4567\n123 Main St\nSpringfield, IL 62701"

\* lines of a business card, one or more for every pass, some of them
\* qualifying for several passes
CardLines ==
    {"Jane Doe", "Senior Engineer", "Acme Corp", "jane.doe@acme.com",
     "bob@x.org, b2@x.org", "www.acme.com", "Lead Systems Inc", "Suite 5 Manager Inc",
     "Tel: 555-234-5678 Director", "123 Main St", "Springfield, IL 62701", "  "}

\* lines with phone numbers in every context, each number written once
PhoneCardLines ==
    {"555-234-5678", "415.555.2671 ext 7", "Cell: 212-555-0101",
     "Office: (646) 555-0202", "Fax: 718-555-0303",
     "Cell: 917-555-0404 Office: 917-555-0505",
     "Office: 516-555-0606 Cell: 516-555-0707", "Tel/Fax: 914-555-0808",
     "Mobile/Fax: 203-555-0909"}

\* lines with and without ZIP codes, address keywords and digits
AddressCardLines ==
    {"123 Main St", "Springfield, IL 62701", "456 Oak", "Elm Street",
     "Boston, MA 02110-1234", "Jane Doe", "Tel: 555-234-5678", "PO Box 12345"}

\* lines with emails and phone numbers: an email with a fax token, one with
\* digits, numbers with and without a label
RoundTripLines ==
    {"bob@x.org", "fax@acme.com", "b5550101@x.org", "555-234-5678",
     "415.555.2671 ext 7", "Cell: 212-555-0101", "Office: (646) 555-0202",
     "Fax: 718-555-0303"}

\* the texts of at most n lines taken from lib
TextsOf(lib, n) ==
    {StrJoin("\n", ls) : ls \in UNION {[1..k -> lib] : k \in 0..n}}

\* ------------------------------------------------------------------------
\* The extraction as a state machine: one step per pass
\* ------------------------------------------------------------------------
VARIABLES text, lines, used_indices, data, found_phones, website_domain,
          addr_lines, claimed, pc, calls,
          old, new, merged, conflicts, resolution, stray, merge_pc,
          app, saved_ids, imported_ids, log, gestures

\* the variables of one call of heuristic_parse
extractor_vars == <<text, lines, used_indices, data, found_phones, website_domain,
                    addr_lines, claimed, pc>>

\* the variables of the callers of heuristic_parse
call_vars == <<calls>>

\* the variables of a merge of two records
merge_vars == <<old, new, merged, conflicts, resolution, stray, merge_pc>>

\* the application: app holds the contact list, the objects it and the
\* editors refer to, contacts.csv, the image folder and the open editors;
\* saved_ids records the IDs save_contact was invoked for, imported_ids the
\* IDs add_from_file has given to its records, log the saves and the
\* deletions in their order, gestures counts the user's gestures
app_vars == <<app, saved_ids, imported_ids, log, gestures>>

\* the variables outside the call of heuristic_parse
outer_vars == <<call_vars, merge_vars, app_vars>>

vars == <<extractor_vars, outer_vars>>

\* the passes of heuristic_parse
PassNames == {"email", "phone", "url", "address", "job_title", "company", "name"}

\* the callers of heuristic_parse: the iterations of "for f in files"
Calls == {1, 2}

\* the call frame of an iteration that has not reached its call
IdleFrame ==
    [text |-> "", lines |-> <<>>, used_indices |-> {}, data |-> EmptyData,
     found_phones |-> <<>>, website_domain |-> "", addr_lines |-> <<>>, pc |-> "idle"]

\* no caller is at work
CallsIdle == calls = [c \in Calls |-> IdleFrame]

\* the string attributes of ContactFields, and its sequence attributes
StringFields ==
    {"first_name", "last_name", "company", "job_title", "email", "mobile_phone",
     "business_phone", "address"}
SequenceFields == {"images", "notes"}

\* a ContactFields with nothing set
EmptyFields ==
    [f \in StringFields \cup SequenceFields |-> IF f \in SequenceFields THEN <<>> ELSE ""]

\* no choice has been made for any field
NoResolution == [f \in StringFields |-> "none"]

\* no merge is going on
MergeIdle ==
    /\ old = EmptyFields
    /\ new = EmptyFields
    /\ merged = EmptyFields
    /\ conflicts = <<>>
    /\ resolution = NoResolution
    /\ stray = ""
    /\ merge_pc = "idle"

\* no call of heuristic_parse is going on
ExtractorIdle ==
    /\ text = ""
    /\ lines = <<>>
    /\ used_indices = {}
    /\ data = EmptyData
    /\ found_phones = <<>>
    /\ website_domain = ""
    /\ addr_lines = <<>>
    /\ claimed = [p \in PassNames |-> {}]
    /\ pc = "idle"

\* CSV_HEADERS
RecordKeys == ContactKeys \cup {"ID", "Image Data", "Notes Data"}

\* new_data = {k: "" for k in CSV_HEADERS}
BlankRecord == [k \in RecordKeys |-> ""]

\* the row of contacts.csv at the start
StoredRecord ==
    [BlankRecord EXCEPT
        !["ID"] = "c1", !["First Name"] = "Jane", !["Last Name"] = "Doe",
        !["Image Data"] = <<[name |-> "Card", path |-> "card_images/jane.jpg"]>>,
        !["Notes Data"] = <<[name |-> "Card Text", content |-> "Jane Doe"]>>]

\* RolodexApp after __init__: load_data has read contacts.csv, no editor
\* is open; heap maps the references of the live dicts to their values
StartApp ==
    [contacts |-> <<1>>,
     heap |-> [r \in {1} |-> StoredRecord],
     disk |-> <<StoredRecord>>,
     files |-> {"card_images/jane.jpg"},
     open_editors |-> <<>>,
     next_uuid |-> 1,
     now |-> 1,
     importing |-> <<>>]

\* the application has started and the user has done nothing
AppIdle ==
    /\ app = StartApp
    /\ saved_ids = {}
    /\ imported_ids = {}
    /\ log = <<>>
    /\ gestures = 0



\* nothing but the call of heuristic_parse is going on
OuterIdle == CallsIdle /\ MergeIdle /\ AppIdle

\* the state at the call heuristic_parse(text, new_data), new_data blank;
\* claimed records, for every pass, the line indices it marked used
InitWith(texts) ==
    /\ text \in texts
    /\ lines = <<>>
    /\ used_indices = {}
    /\ data = EmptyData
    /\ found_phones = <<>>
    /\ website_domain = ""
    /\ addr_lines = <<>>
    /\ claimed = [p \in PassNames |-> {}]
    /\ pc = "start"
    /\ OuterIdle

Init == InitWith(TextsOf(CardLines, MaxLines) \cup {ScenarioText})

\* lines and used_indices are set up
SplitLines ==
    /\ pc = "start"
    /\ lines' = NonBlankLines(text)
    /\ used_indices' = {}
    /\ pc' = "email"
    /\ UNCHANGED <<text, data, found_phones, website_domain, addr_lines, claimed>>
    /\ UNCHANGED outer_vars

ExtractEmails ==
    /\ pc = "email"
    /\ LET r == EmailPass(lines, 1, used_indices, data)
       IN /\ data' = r.data
          /\ used_indices' = r.used
          /\ claimed' = [claimed EXCEPT !["email"] = r.added]
    /\ pc' = "phone"
    /\ UNCHANGED <<text, lines, found_phones, website_domain, addr_lines>>
    /\ UNCHANGED outer_vars

ExtractPhones ==
    /\ pc = "phone"
    /\ LET r == PhonePass(lines, 1, used_indices)
       IN /\ found_phones' = r.found_phones
          /\ used_indices' = r.used
          /\ claimed' = [claimed EXCEPT !["phone"] = r.added]
          /\ data' = AssignPhones(r.found_phones, data)
    /\ pc' = "url"
    /\ UNCHANGED <<text, lines, website_domain, addr_lines>>
    /\ UNCHANGED outer_vars

ExtractUrl ==
    /\ pc = "url"
    /\ LET r == UrlPass(lines, 1, used_indices, "")
       IN /\ website_domain' = r.website_domain
          /\ used_indices' = r.used
          /\ claimed' = [claimed EXCEPT !["url"] = r.added]
    /\ pc' = "address"
    /\ UNCHANGED <<text, lines, data, found_phones, addr_lines>>
    /\ UNCHANGED outer_vars

ExtractAddress ==
    /\ pc = "address"
    /\ LET r == AddressPass(lines, 1, used_indices)
       IN /\ addr_lines' = r.addr_lines
          /\ used_indices' = r.used
          /\ claimed' = [claimed EXCEPT !["address"] = r.added]
          /\ data' = IF r.addr_lines # <<>>
                     THEN [data EXCEPT !["Address"] = StrJoin("\n", r.addr_lines)]
                     ELSE data
    /\ pc' = "job_title"
    /\ UNCHANGED <<text, lines, found_phones, website_domain>>
    /\ UNCHANGED outer_vars

ExtractJobTitle ==
    /\ pc = "job_title"
    /\ LET r == JobTitlePass(lines, 1, used_indices, data)
       IN /\ data' = r.data
          /\ used_indices' = r.used
          /\ claimed' = [claimed EXCEPT !["job_title"] = r.added]
    /\ pc' = "company"
    /\ UNCHANGED <<text, lines, found_phones, website_domain, addr_lines>>
    /\ UNCHANGED outer_vars

ExtractCompany ==
    /\ pc = "company"
    /\ LET r == CompanyPass(lines, used_indices, data, website_domain)
       IN /\ data' = r.data
          /\ used_indices' = r.used
          /\ claimed' = [claimed EXCEPT !["company"] = r.added]
    /\ pc' = "name"
    /\ UNCHANGED <<text, lines, found_phones, website_domain, addr_lines>>
    /\ UNCHANGED outer_vars

ExtractName ==
    /\ pc = "name"
    /\ LET r == NamePass(lines, 1, used_indices, data)
       IN /\ data' = r.data
          /\ used_indices' = r.used
          /\ claimed' = [claimed EXCEPT !["name"] = r.added]
    /\ pc' = "done"
    /\ UNCHANGED <<text, lines, found_phones, website_domain, addr_lines>>
    /\ UNCHANGED outer_vars

Next ==
    \/ SplitLines
    \/ ExtractEmails
    \/ ExtractPhones
    \/ ExtractUrl
    \/ ExtractAddress
    \/ ExtractJobTitle
    \/ ExtractCompany
    \/ ExtractName

Spec == Init /\ [][Next]_vars

\* the extraction of texts made of phone lines
InitPhone == InitWith(TextsOf(PhoneCardLines, MaxLines))

SpecPhone == InitPhone /\ [][Next]_vars

\* the extraction of texts made of address lines
InitAddress == InitWith(TextsOf(AddressCardLines, MaxLines))

SpecAddress == InitAddress /\ [][Next]_vars

\* the extraction of texts made of email and phone lines
InitRoundTrip == InitWith(TextsOf(RoundTripLines, MaxLines))

SpecRoundTrip == InitRoundTrip /\ [][Next]_vars

\* lines for the job title, company and name passes: names of one to five
\* tokens, a title keyword inside a word and in a sentence, suffix tokens,
\* a URL
NameCardLines ==
    {"Jane Doe", "Cher", "Al", "Mary  Ann van Buren", "Dr Mary Ann van Buren", "Room 5",
     "Senior Engineer", "Headquarters", "We lead the way in systems and services",
     "Acme Corp", "Lead Systems Inc", "www.acme.com"}

\* the extraction of texts made of these lines
InitNames == InitWith(TextsOf(NameCardLines, MaxLines))

SpecNames == InitNames /\ [][Next]_vars

\* the stepwise extraction returns what heuristic_parse returns
StepwiseAgrees == pc = "done" => data = HeuristicParse(text, EmptyData)

\* ------------------------------------------------------------------------
\* Several calls of heuristic_parse, their passes interleaved
\* ------------------------------------------------------------------------

\* the OCR texts of the files handed to add_from_file
CallTexts ==
    {"", "bob@x.org\nJane Doe", "Jane Doe\n555-234-5678\n415.555.2671",
     "www.acme.com\nSenior Engineer", "Acme Corp\n123 Main St\nSpringfield, IL 62701"}

\* a variant that hands the record of the iteration before to the call
BeginFrame_DataKept(f, t) == [IdleFrame EXCEPT !.text = t, !.data = f.data, !.pc = "start"]

\* an iteration of "for f in files" reaches heuristic_parse(text, new_data):
\* new_data is blank, and nothing of the frame f of the iteration before
\* is left
BeginFrame(f, t) == [IdleFrame EXCEPT !.text = t, !.pc = "start"]

\* a variant with one set of used indices for all the calls
FrameSplitLines_SharedUsed(fs, c) ==
    [fs[c] EXCEPT !.lines = NonBlankLines(fs[c].text),
                  !.used_indices = UNION {fs[q].used_indices : q \in Calls},
                  !.pc = "email"]

\* lines and used_indices of the call c are set up; they are locals of the
\* call, whatever the frames fs of the other calls hold
FrameSplitLines(fs, c) ==
    [fs[c] EXCEPT !.lines = NonBlankLines(fs[c].text),
                  !.used_indices = {},
                  !.pc = "email"]

\* the pass at f.pc, on the locals of the frame f
FramePass(f) ==
    CASE f.pc = "email" ->
            LET r == EmailPass(f.lines, 1, f.used_indices, f.data)
            IN [f EXCEPT !.data = r.data, !.used_indices = r.used, !.pc = "phone"]
      [] f.pc = "phone" ->
            LET r == PhonePass(f.lines, 1, f.used_indices)
            IN [f EXCEPT !.found_phones = r.found_phones, !.used_indices = r.used,
                         !.data = AssignPhones(r.found_phones, f.data), !.pc = "url"]
      [] f.pc = "url" ->
            LET r == UrlPass(f.lines, 1, f.used_indices, "")
            IN [f EXCEPT !.website_domain = r.website_domain, !.used_indices = r.used,
                         !.pc = "address"]
      [] f.pc = "address" ->
            LET r == AddressPass(f.lines, 1, f.used_indices)
            IN [f EXCEPT !.addr_lines = r.addr_lines, !.used_indices = r.used,
                         !.data = IF r.addr_lines # <<>>
                                  THEN [f.data EXCEPT !["Address"] = StrJoin("\n", r.addr_lines)]
                                  ELSE f.data,
                         !.pc = "job_title"]
      [] f.pc = "job_title" ->
            LET r == JobTitlePass(f.lines, 1, f.used_indices, f.data)
            IN [f EXCEPT !.data = r.data, !.used_indices = r.used, !.pc = "company"]
      [] f.pc = "company" ->
            LET r == CompanyPass(f.lines, f.used_indices, f.data, f.website_domain)
            IN [f EXCEPT !.data = r.data, !.used_indices = r.used, !.pc = "name"]
      [] f.pc = "name" ->
            LET r == NamePass(f.lines, 1, f.used_indices, f.data)
            IN [f EXCEPT !.data = r.data, !.used_indices = r.used, !.pc = "done"]

\* the caller c calls heuristic_parse on the text of its next file
Call(c) ==
    /\ calls[c].pc \in {"idle", "done"}
    /\ \E t \in CallTexts : calls' = [calls EXCEPT ![c] = BeginFrame(calls[c], t)]
    /\ UNCHANGED <<extractor_vars, merge_vars, app_vars>>

CallSplitLines(c) ==
    /\ calls[c].pc = "start"
    /\ calls' = [calls EXCEPT ![c] = FrameSplitLines(calls, c)]
    /\ UNCHANGED <<extractor_vars, merge_vars, app_vars>>

\* the call of c runs its next pass
CallPass(c) ==
    /\ calls[c].pc \in PassNames
    /\ calls' = [calls EXCEPT ![c] = FramePass(calls[c])]
    /\ UNCHANGED <<extractor_vars, merge_vars, app_vars>>

NextCalls == \E c \in Calls : Call(c) \/ CallSplitLines(c) \/ CallPass(c)

InitCalls == ExtractorIdle /\ CallsIdle /\ MergeIdle /\ AppIdle

SpecCalls == InitCalls /\ [][NextCalls]_vars

\* ------------------------------------------------------------------------
\* The merge of two records: the contract of section 4.2 of the
\* specification, as the two steps diff and apply_resolutions of section 9
\* ------------------------------------------------------------------------

\* the longest images and notes sequences of the records that are merged
MaxItems == 1

\* a variant that compares the name fields as well
ComparableFields_WithNames ==
    <<"first_name", "last_name", "company", "job_title", "email", "mobile_phone",
      "business_phone", "address">>

\* the comparable fields, in the order of the conflict list
ComparableFields ==
    <<"company", "job_title", "email", "mobile_phone", "business_phone", "address">>

\* a variant without the silent auto-fill
MergedField_KeepOld(o, n, f) == o[f]

\* the provisional value of the comparable field f: new's value fills an
\* empty old one, in every other case old's value stays
MergedField(o, n, f) ==
    IF StrStrip(o[f]) = "" /\ StrStrip(n[f]) # "" THEN n[f] ELSE o[f]

\* both values are non-empty and differ, after trimming
IsConflict(o, n, f) ==
    /\ StrStrip(o[f]) # ""
    /\ StrStrip(n[f]) # ""
    /\ StrStrip(o[f]) # StrStrip(n[f])

\* a variant that puts new's entries first
MergedItems_NewFirst(o, n, f) == n[f] \o o[f]

\* images and notes: old's sequence followed by new's
MergedItems(o, n, f) == o[f] \o n[f]

\* diff(old, new) -> (merged_draft, conflicts)
Diff(o, n) ==
    LET cf == SelectSeq(ComparableFields, LAMBDA f : IsConflict(o, n, f))
    IN [merged |-> [f \in DOMAIN o |->
                       IF f \in SequenceFields THEN MergedItems(o, n, f)
                       ELSE IF InSeq(f, ComparableFields) THEN MergedField(o, n, f)
                       ELSE o[f]],
        conflicts |-> [k \in 1..Len(cf) |-> <<cf[k], o[cf[k]], n[cf[k]]>>]]

\* a variant that never writes new's value
ApplyResolutions_KeepOld(draft, cs, rm) ==
    [f \in DOMAIN draft |->
        LET hit == {k \in 1..Len(cs) : cs[k][1] = f}
        IN IF hit # {} /\ f \in DOMAIN rm
           THEN cs[CHOOSE k \in hit : TRUE][2]
           ELSE draft[f]]

\* a variant that takes a choice for a field without a conflict as the
\* choice of no value
ApplyResolutions_Unchecked(draft, cs, rm) ==
    [f \in DOMAIN draft |->
        LET hit == {k \in 1..Len(cs) : cs[k][1] = f}
        IN IF f \in DOMAIN rm
           THEN IF hit = {} THEN ""
                ELSE LET c == cs[CHOOSE k \in hit : TRUE]
                     IN IF rm[f] = "new" THEN c[3] ELSE c[2]
           ELSE draft[f]]

\* apply_resolutions(merged_draft, conflicts, resolution_map): the chosen
\* value of every conflict that has a choice is written; a choice for a
\* field that is not in the conflict list is ignored
ApplyResolutions(draft, cs, rm) ==
    [f \in DOMAIN draft |->
        LET hit == {k \in 1..Len(cs) : cs[k][1] = f}
        IN IF hit # {} /\ f \in DOMAIN rm
           THEN LET c == cs[CHOOSE k \in hit : TRUE]
                IN IF rm[f] = "new" THEN c[3] ELSE c[2]
           ELSE draft[f]]

\* the records that are merged
DigitNames == <<"1", "2", "3", "4">>
ImagesOf(name, k) == [i \in 1..k |-> [name |-> name, path |-> name \o DigitNames[i] \o ".jpg"]]
NotesOf(name, k) == [i \in 1..k |-> [name |-> name, content |-> name \o " " \o DigitNames[i]]]
EmailValues == {"", "a@x.com", " a@x.com ", "b@x.com"}

OldRecords ==
    {[EmptyFields EXCEPT !.first_name = "Jane", !.last_name = "Doe", !.email = e,
                         !.company = c, !.mobile_phone = "555-234-5678",
                         !.address = "1 Main St", !.images = ImagesOf("Card", k),
                         !.notes = NotesOf("General", k)] :
        e \in EmailValues, c \in {"", "Acme Inc"}, k \in 0..MaxItems}

NewRecords ==
    {[EmptyFields EXCEPT !.first_name = nm[1], !.last_name = nm[2], !.email = e,
                         !.company = c, !.job_title = "Engineer", !.address = a,
                         !.images = ImagesOf("Scan", k),
                         !.notes = NotesOf("Card Text", k)] :
        nm \in {<<"Jane", "Doe">>, <<"Janet", "Dow">>}, e \in EmailValues,
        c \in {"", "Acme Inc", "Acme Corp"}, a \in {"1 Main St ", "2 Oak Ave"},
        k \in 0..MaxItems}

\* the merge of old and new is asked for
InitMerge ==
    /\ ExtractorIdle
    /\ CallsIdle
    /\ AppIdle
    /\ old \in OldRecords
    /\ new \in NewRecords
    /\ merged = EmptyFields
    /\ conflicts = <<>>
    /\ resolution = NoResolution
    /\ stray = ""
    /\ merge_pc = "start"

\* the first call: the draft and the conflict list; without conflicts the
\* merge is final at once
MergeDiff ==
    /\ merge_pc = "start"
    /\ LET r == Diff(old, new)
       IN /\ merged' = r.merged
          /\ conflicts' = r.conflicts
          /\ merge_pc' = IF r.conflicts = <<>> THEN "final" ELSE "pending"
    /\ UNCHANGED <<old, new, resolution, stray>>
    /\ UNCHANGED <<extractor_vars, call_vars, app_vars>>

\* the caller supplies the choice ch for the field f; the merge is final
\* when every conflict has a choice; stray keeps the last field a choice
\* was supplied for that is not in the conflict list
MergeResolve ==
    /\ merge_pc = "pending"
    /\ \E f \in StringFields, ch \in {"old", "new"} :
           LET known == \E k \in 1..Len(conflicts) : conflicts[k][1] = f
               res == IF known THEN [resolution EXCEPT ![f] = ch] ELSE resolution
           IN /\ merged' = ApplyResolutions(merged, conflicts, [g \in {f} |-> ch])
              /\ resolution' = res
              /\ stray' = IF known THEN stray ELSE f
              /\ merge_pc' = IF \A k \in 1..Len(conflicts) : res[conflicts[k][1]] # "none"
                             THEN "final" ELSE "pending"
    /\ UNCHANGED <<old, new, conflicts>>
    /\ UNCHANGED <<extractor_vars, call_vars, app_vars>>

NextMerge == MergeDiff \/ MergeResolve

SpecMerge == InitMerge /\ [][NextMerge]_vars

\* ------------------------------------------------------------------------
\* The application: the contact list, the editors and the import from file.
\* The operators take the application state S (the value of app) and
\* return the state after the handler; the actions are the user's gestures.
\* ------------------------------------------------------------------------

\* the gestures of the user in one run
MaxGestures == 3

\* str(uuid.uuid4()): the n-th identifier drawn
Uuid(n) == "u" \o ToString(n)

\* the reference of a new dict
NewRef(h) ==
    CHOOSE r \in 1..(Cardinality(DOMAIN h) + 1) :
        r \notin DOMAIN h /\ \A q \in 1..(r - 1) : q \in DOMAIN h

\* the heap h with the value obj at the reference r
Store(h, r, obj) == [q \in DOMAIN h \cup {r} |-> IF q = r THEN obj ELSE h[q]]

\* the references held by the contact list and by the open editors
LiveRefs(S) ==
    {S.contacts[k] : k \in 1..Len(S.contacts)}
        \cup {S.open_editors[i].data : i \in 1..Len(S.open_editors)}

\* dicts that nothing refers to are gone
Collect(S) == [S EXCEPT !.heap = [r \in LiveRefs(S) |-> S.heap[r]]]

\* the records of the contact list, and their IDs
ContactRecords(S) == [k \in 1..Len(S.contacts) |-> S.heap[S.contacts[k]]]
ContactIds(S) == {S.heap[S.contacts[k]]["ID"] : k \in 1..Len(S.contacts)}

\* next((i for i, c in enumerate(self.contacts) if c["ID"] == cid), None),
\* 0 for None
IndexOfId(S, cid) ==
    LET hits == {k \in 1..Len(S.contacts) : S.heap[S.contacts[k]]["ID"] = cid}
    IN IF hits = {} THEN 0 ELSE CHOOSE k \in hits : \A j \in hits : k <= j

\* a variant in which the editor keeps the dict it was given
CopyOf_Alias(S, ref) == [heap |-> S.heap, ref |-> ref]

\* self.data = json.loads(json.dumps(contact_data)): a new dict of equal
\* value
CopyOf(S, ref) ==
    [heap |-> Store(S.heap, NewRef(S.heap), S.heap[ref]), ref |-> NewRef(S.heap)]

\* load_notes on an empty list: one empty note "General"
LoadedNotes(notes) ==
    IF notes = <<>> THEN <<[name |-> "General", content |-> ""]>> ELSE notes

\* open_editor_data(data): ContactEditor(self, data) with its setup_ui,
\* load_images and load_notes, appended to open_editors; ref = 0 is None,
\* imported tells that add_from_file is the caller
OpenEditorData(S, ref, imported) ==
    LET c == IF ref # 0 THEN CopyOf(S, ref)
             ELSE [heap |-> Store(S.heap, NewRef(S.heap),
                                  [BlankRecord EXCEPT !["ID"] = Uuid(S.next_uuid),
                                                      !["Image Data"] = <<>>,
                                                      !["Notes Data"] = <<>>]),
                   ref |-> NewRef(S.heap)]
        d == [c.heap[c.ref] EXCEPT !["Notes Data"] = LoadedNotes(@)]
        editor == [data |-> c.ref,
                   inputs |-> [k \in ContactKeys |-> d[k]],
                   img_tabs |-> d["Image Data"],
                   note_tabs |-> d["Notes Data"],
                   can_delete |-> d["ID"] \in ContactIds(S),
                   imported |-> imported]
    IN [S EXCEPT !.heap = Store(c.heap, c.ref, d),
                 !.open_editors = Append(@, editor),
                 !.next_uuid = IF ref = 0 THEN @ + 1 ELSE @]

\* the editor i is closed: finished removes it from open_editors
CloseEditor(S, i) ==
    Collect([S EXCEPT !.open_editors =
                SubSeq(@, 1, i - 1) \o SubSeq(@, i + 1, Len(@))])

\* save_data_to_disk: the rows of contacts.csv are the records of the list
SaveDataToDisk(S) == [S EXCEPT !.disk = ContactRecords(S)]

\* save_contact_data(contact_data): the dict replaces the record of its ID
\* or is appended; the list is written to disk
SaveContactData(S, ref) ==
    LET existing == IndexOfId(S, S.heap[ref]["ID"])
    IN SaveDataToDisk([S EXCEPT !.contacts = IF existing # 0
                                             THEN [@ EXCEPT ![existing] = ref]
                                             ELSE Append(@, ref)])

\* save_contact of the editor i: the fields from the inputs, the notes and
\* the images from the tabs, then save_contact_data and close
SaveContact(S, i) ==
    LET ed == S.open_editors[i]
        d == [k \in RecordKeys |->
                 IF k \in ContactKeys THEN StrStrip(ed.inputs[k])
                 ELSE IF k = "Notes Data" THEN ed.note_tabs
                 ELSE IF k = "Image Data" THEN ed.img_tabs
                 ELSE S.heap[ed.data][k]]
    IN CloseEditor(SaveContactData([S EXCEPT !.heap[ed.data] = d], ed.data), i)

\* the handlers run one at a time, and none while add_from_file is in
\* heuristic_parse
Ready == pc = "idle" /\ gestures < MaxGestures

\* the user double-clicks a row: open_editor_by_id
DoubleClickContact ==
    /\ Ready
    /\ \E k \in 1..Len(app.contacts) : app' = OpenEditorData(app, app.contacts[k], FALSE)
    /\ gestures' = gestures + 1
    /\ UNCHANGED <<saved_ids, imported_ids, log, extractor_vars, call_vars, merge_vars>>

\* add_new_contact
ClickAddNew ==
    /\ Ready
    /\ app' = OpenEditorData(app, 0, FALSE)
    /\ gestures' = gestures + 1
    /\ UNCHANGED <<saved_ids, imported_ids, log, extractor_vars, call_vars, merge_vars>>

\* the Save button of the editor i
ClickSave(i) ==
    /\ Ready
    /\ i \in 1..Len(app.open_editors)
    /\ app' = SaveContact(app, i)
    /\ saved_ids' = saved_ids \cup {app.heap[app.open_editors[i].data]["ID"]}
    /\ log' = Append(log, <<"save", app.heap[app.open_editors[i].data]["ID"]>>)
    /\ gestures' = gestures + 1
    /\ UNCHANGED <<imported_ids, extractor_vars, call_vars, merge_vars>>

\* the Cancel button of the editor i, or its window is closed: reject
ClickCancel(i) ==
    /\ Ready
    /\ i \in 1..Len(app.open_editors)
    /\ app' = CloseEditor(app, i)
    /\ gestures' = gestures + 1
    /\ UNCHANGED <<saved_ids, imported_ids, log, extractor_vars, call_vars, merge_vars>>

\* the dict of the editor i becomes d
WithData(S, i, d) == [S EXCEPT !.heap[S.open_editors[i].data] = d]

\* save_current_notes_to_data: the notes of the dict are rebuilt from the
\* tabs
SaveCurrentNotesToData(S, i) ==
    WithData(S, i, [S.heap[S.open_editors[i].data] EXCEPT
                       !["Notes Data"] = S.open_editors[i].note_tabs])

\* load_notes: the tabs are rebuilt from the notes of the dict, an empty
\* list becoming one note "General"
LoadNotes(S, i) ==
    LET notes == LoadedNotes(S.heap[S.open_editors[i].data]["Notes Data"])
    IN [WithData(S, i, [S.heap[S.open_editors[i].data] EXCEPT !["Notes Data"] = notes])
           EXCEPT !.open_editors[i].note_tabs = notes]

\* load_images: the tabs are rebuilt from the images of the dict
LoadImages(S, i) ==
    [S EXCEPT !.open_editors[i].img_tabs = S.heap[S.open_editors[i].data]["Image Data"]]

\* datetime.now().strftime("%m/%d/%Y")
Today == "11/04/2026"

\* handle_note_tab_change on the "+" tab: a new empty note named by the date
HandleNoteTabChange(S, i) ==
    LET T == SaveCurrentNotesToData(S, i)
        d == T.heap[T.open_editors[i].data]
    IN LoadNotes(WithData(T, i, [d EXCEPT !["Notes Data"] =
                                     Append(@, [name |-> Today, content |-> ""])]), i)

\* rename_note_tab(index) with the name accepted
RenameNoteTab(S, i, index, new_name) ==
    SaveCurrentNotesToData([S EXCEPT !.open_editors[i].note_tabs[index].name = new_name], i)

\* Delete in the menu of a note tab
DeleteNoteTab(S, i, index) ==
    LET T == SaveCurrentNotesToData(S, i)
        d == T.heap[T.open_editors[i].data]
    IN LoadNotes(WithData(T, i, [d EXCEPT !["Notes Data"] =
                                     SubSeq(@, 1, index - 1) \o SubSeq(@, index + 1, Len(@))]), i)

\* add_image with one image file chosen and the tab name left "Doc": the
\* file is copied under a name made of the time
AddImage(S, i) ==
    LET save_path == "card_images/img_" \o ToString(S.now) \o "_doc.jpg"
        d == S.heap[S.open_editors[i].data]
    IN LoadImages([WithData(S, i, [d EXCEPT !["Image Data"] =
                                      Append(@, [name |-> "Doc", path |-> save_path])])
                     EXCEPT !.files = @ \cup {save_path}, !.now = @ + 1], i)

\* rename_img_tab(index) with the name accepted
RenameImgTab(S, i, index, new_name) ==
    LET d == S.heap[S.open_editors[i].data]
        T == [S EXCEPT !.open_editors[i].img_tabs[index].name = new_name]
    IN IF index <= Len(d["Image Data"])
       THEN WithData(T, i, [d EXCEPT !["Image Data"][index].name = new_name])
       ELSE T

\* delete_image_file(path): os.remove
DeleteImageFile(S, path) == [S EXCEPT !.files = @ \ {path}]

\* delete_img_tab(index): the file is removed at once, then the entry
DeleteImgTab(S, i, index) ==
    LET d == S.heap[S.open_editors[i].data]
    IN IF index <= Len(d["Image Data"])
       THEN LoadImages(WithData(DeleteImageFile(S, d["Image Data"][index].path), i,
                                [d EXCEPT !["Image Data"] =
                                    SubSeq(@, 1, index - 1) \o SubSeq(@, index + 1, Len(@))]), i)
       ELSE S

\* what the user types into a field, the names given to tabs
TypedValues == {"Ann ", ""}
EditedFields == {"First Name", "Company"}
NewNoteName == "Follow-up"
NewImgName == "Front"

\* the user types into an input of the editor i: only the widget changes
TypeField(i) ==
    /\ Ready
    /\ i \in 1..Len(app.open_editors)
    /\ \E f \in EditedFields, v \in TypedValues :
          /\ app.open_editors[i].inputs[f] # v
          /\ app' = [app EXCEPT !.open_editors[i].inputs[f] = v]
    /\ gestures' = gestures + 1
    /\ UNCHANGED <<saved_ids, imported_ids, log, extractor_vars, call_vars, merge_vars>>

\* the user types into the first note of the editor i
TypeNote(i) ==
    /\ Ready
    /\ i \in 1..Len(app.open_editors)
    /\ app.open_editors[i].note_tabs[1].content # "call back"
    /\ app' = [app EXCEPT !.open_editors[i].note_tabs[1].content = "call back"]
    /\ gestures' = gestures + 1
    /\ UNCHANGED <<saved_ids, imported_ids, log, extractor_vars, call_vars, merge_vars>>

\* the "+" tab of the notes
ClickPlusTab(i) ==
    /\ Ready
    /\ i \in 1..Len(app.open_editors)
    /\ app' = HandleNoteTabChange(app, i)
    /\ gestures' = gestures + 1
    /\ UNCHANGED <<saved_ids, imported_ids, log, extractor_vars, call_vars, merge_vars>>

\* Rename or Delete in the menu of a note tab
NoteTabMenu(i) ==
    /\ Ready
    /\ i \in 1..Len(app.open_editors)
    /\ \E index \in 1..Len(app.open_editors[i].note_tabs) :
          \/ app' = RenameNoteTab(app, i, index, NewNoteName)
          \/ app' = DeleteNoteTab(app, i, index)
    /\ gestures' = gestures + 1
    /\ UNCHANGED <<saved_ids, imported_ids, log, extractor_vars, call_vars, merge_vars>>

\* the Add Image button
ClickAddImage(i) ==
    /\ Ready
    /\ i \in 1..Len(app.open_editors)
    /\ app' = AddImage(app, i)
    /\ gestures' = gestures + 1
    /\ UNCHANGED <<saved_ids, imported_ids, log, extractor_vars, call_vars, merge_vars>>

\* Rename or Delete in the menu of an image tab
ImgTabMenu(i) ==
    /\ Ready
    /\ i \in 1..Len(app.open_editors)
    /\ \E index \in 1..Len(app.open_editors[i].img_tabs) :
          \/ app' = RenameImgTab(app, i, index, NewImgName)
          \/ app' = DeleteImgTab(app, i, index)
    /\ gestures' = gestures + 1
    /\ UNCHANGED <<saved_ids, imported_ids, log, extractor_vars, call_vars, merge_vars>>

\* delete_contact_by_id(cid): the image files of the stored record are
\* removed, then the record, and the list is written to disk
DeleteContactById(S, cid) ==
    LET k == IndexOfId(S, cid)
        paths == {S.heap[S.contacts[k]]["Image Data"][j].path :
                     j \in 1..Len(S.heap[S.contacts[k]]["Image Data"])}
    IN IF k = 0 THEN S
       ELSE SaveDataToDisk([S EXCEPT !.files = @ \ paths,
                                     !.contacts = SubSeq(@, 1, k - 1) \o SubSeq(@, k + 1, Len(@))])

\* the Delete Contact button of the editor i, shown when the contact was
\* in the list as the editor opened: delete_contact, confirmed
ClickDelete(i) ==
    /\ Ready
    /\ i \in 1..Len(app.open_editors)
    /\ app.open_editors[i].can_delete
    /\ app' = CloseEditor(DeleteContactById(app, app.heap[app.open_editors[i].data]["ID"]), i)
    /\ log' = IF app.heap[app.open_editors[i].data]["ID"] \in ContactIds(app)
              THEN Append(log, <<"delete", app.heap[app.open_editors[i].data]["ID"]>>)
              ELSE log
    /\ gestures' = gestures + 1
    /\ UNCHANGED <<saved_ids, imported_ids, extractor_vars, call_vars, merge_vars>>

\* delete_selected with the rows of ids selected, confirmed: the image
\* files of these records are removed, then the records, and the list is
\* written to disk
DeleteSelected(S, ids) ==
    LET gone == {k \in 1..Len(S.contacts) : S.heap[S.contacts[k]]["ID"] \in ids}
        paths == UNION {{S.heap[S.contacts[k]]["Image Data"][j].path :
                            j \in 1..Len(S.heap[S.contacts[k]]["Image Data"])} : k \in gone}
    IN Collect(SaveDataToDisk(
           [S EXCEPT !.files = @ \ paths,
                     !.contacts = SelectSeq(@, LAMBDA r : S.heap[r]["ID"] \notin ids)]))

\* the deletions of the IDs ids, in the order of the list, as log entries
DeletionsOf(S, ids) ==
    LET hit == SelectSeq(S.contacts, LAMBDA r : S.heap[r]["ID"] \in ids)
    IN [k \in 1..Len(hit) |-> <<"delete", S.heap[hit[k]]["ID"]>>]

\* the Delete button of the main window with some rows selected
ClickDeleteSelected ==
    /\ Ready
    /\ \E ids \in SUBSET ContactIds(app) :
          /\ ids # {}
          /\ app' = DeleteSelected(app, ids)
          /\ log' = log \o DeletionsOf(app, ids)
    /\ gestures' = gestures + 1
    /\ UNCHANGED <<saved_ids, imported_ids, extractor_vars, call_vars, merge_vars>>

\* the image files the user can choose in add_from_file, each with the
\* text tesseract reads on it
ImportFiles ==
    {[name |-> "bob.jpg", text |-> "Bob Ray\nbob@x.org"],
     [name |-> "jane.jpg", text |-> "Jane Doe"]}

\* what QFileDialog.getOpenFileNames returns for a choice of image files
\* and for a choice of PDF files, one file or several; a PDF file has a
\* number of pages and the text tesseract reads on its first page
ImageSelections ==
    {<<f>> : f \in ImportFiles} \cup
    {<<[name |-> "jane.jpg", text |-> "Jane Doe"],
       [name |-> "bob.jpg", text |-> "Bob Ray\nbob@x.org"]>>}

PdfSelections ==
    {<<[name |-> "card.pdf", pages |-> 2, text |-> "Bob Ray\nbob@x.org"]>>,
     <<[name |-> "card.pdf", pages |-> 2, text |-> "Bob Ray\nbob@x.org"],
       [name |-> "memo.pdf", pages |-> 1, text |-> "Jane Doe"]>>}

\* what can happen to a file in its iteration: with an image file the copy
\* fails or tesseract fails or both succeed, with a PDF file the
\* conversion fails or tesseract fails on the first page or both succeed
Outcomes(is_pdf) ==
    IF is_pdf THEN {"ok", "ocr_failed", "convert_failed"}
    ELSE {"ok", "ocr_failed", "copy_failed"}

\* os.path.splitext(file_base_name)[0]
FileName(base) ==
    LET dots == {i \in 2..Len(base) : Ch(base, i) = "."}
    IN IF dots = {} THEN base
       ELSE SubSeq(base, 1, (CHOOSE d \in dots : \A e \in dots : e <= d) - 1)

\* the path the page i of the PDF file f is saved at
PagePath(f, i) == "card_images/" \o FileName(f.name) \o "__" \o ToString(i) \o ".jpg"

\* the entry of Image Data of the page i
PageEntry(f, i) ==
    [name |-> IF i = 0 THEN "Card" ELSE IF i = 1 THEN "Back" ELSE "Img " \o ToString(i + 1),
     path |-> PagePath(f, i)]

\* new_data of add_from_file for the image file f, copied or not
NewData(S, f, copied) ==
    [BlankRecord EXCEPT
        !["ID"] = Uuid(S.next_uuid),
        !["Image Data"] = IF copied
                          THEN <<[name |-> "Card", path |-> "card_images/" \o f.name]>>
                          ELSE <<>>,
        !["Notes Data"] = <<>>]

\* new_data of add_from_file for the PDF file f once its first page is
\* saved and listed
NewPdfData(S, f) ==
    [BlankRecord EXCEPT
        !["ID"] = Uuid(S.next_uuid),
        !["Image Data"] = <<PageEntry(f, 0)>>,
        !["Notes Data"] = <<>>]

\* a variant in which the imported record is stored without review
AddFromFileTail_Saved(S, new_data) ==
    LET r == NewRef(S.heap)
    IN IF new_data["Image Data"] # <<>>
       THEN Collect(SaveContactData(
                OpenEditorData([S EXCEPT !.heap = Store(S.heap, r, new_data)], r, TRUE), r))
       ELSE S

\* the end of an iteration of add_from_file: an editor is opened on
\* new_data if it has an image
AddFromFileTail(S, new_data) ==
    LET r == NewRef(S.heap)
    IN IF new_data["Image Data"] # <<>>
       THEN Collect(OpenEditorData([S EXCEPT !.heap = Store(S.heap, r, new_data)], r, TRUE))
       ELSE S

\* tesseract fails on the first page of the PDF file f, saved and listed
\* already: the handler formats error_msg, a local variable that has no
\* value yet, the error raised is handled as a failed conversion and
\* add_from_file returns
PdfOcrFailed(S, f, rest) ==
    [app |-> [S EXCEPT !.next_uuid = @ + 1, !.files = @ \cup {PagePath(f, 0)}],
     rest |-> <<>>]

\* the loop of add_from_file over the files todo, each with what happens
\* to it, up to the first call of heuristic_parse or to the end of the
\* handler: the application then, and the entries of the log
RECURSIVE AddFromFileLoop(_, _, _)
AddFromFileLoop(S, is_pdf, todo) ==
    IF todo = <<>> THEN [app |-> S, entries |-> <<>>]
    ELSE LET f == todo[1].f
             outcome == todo[1].outcome
             entry == <<outcome, Uuid(S.next_uuid)>>
             T == [S EXCEPT !.next_uuid = @ + 1]
             Go(R) == LET L == AddFromFileLoop(R.app, is_pdf, R.rest)
                      IN [app |-> L.app, entries |-> <<entry>> \o L.entries]
         IN CASE outcome = "ok" ->
                   [app |-> [T EXCEPT !.files = @ \cup {IF is_pdf THEN PagePath(f, 0)
                                                       ELSE "card_images/" \o f.name},
                                      !.importing =
                                          <<[new_data |-> IF is_pdf THEN NewPdfData(S, f)
                                                          ELSE NewData(S, f, TRUE),
                                             f |-> f, is_pdf |-> is_pdf,
                                             rest |-> Tail(todo)]>>],
                    entries |-> <<entry>>]
              [] outcome = "convert_failed" ->
                   [app |-> T, entries |-> <<entry>>]
              [] outcome = "ocr_failed" /\ is_pdf ->
                   Go(PdfOcrFailed(S, f, Tail(todo)))
              [] outcome = "ocr_failed" /\ ~is_pdf ->
                   Go([app |-> AddFromFileTail([T EXCEPT !.files = @ \cup {"card_images/" \o f.name}],
                                               NewData(S, f, TRUE)),
                       rest |-> Tail(todo)])
              [] outcome = "copy_failed" ->
                   Go([app |-> AddFromFileTail(T, NewData(S, f, FALSE)), rest |-> Tail(todo)])

\* the IDs made in the iterations logged
IdsOf(entries) == {entries[k][2] : k \in 1..Len(entries)}

\* add_from_file(is_pdf) with the files sel chosen, up to the first call
\* of heuristic_parse when tesseract has read an image, to its end when
\* there is no such call
ClickAddFromFile(is_pdf, sel) ==
    /\ Ready
    /\ \E outcome \in [1..Len(sel) -> Outcomes(is_pdf)] :
          LET todo == [k \in 1..Len(sel) |-> [f |-> sel[k], outcome |-> outcome[k]]]
              L == AddFromFileLoop(app, is_pdf, todo)
          IN /\ app' = L.app
             /\ log' = log \o [k \in 1..Len(sel) |-> <<"selected", sel[k].name>>] \o L.entries
             /\ imported_ids' = imported_ids \cup IdsOf(L.entries)
             /\ IF L.app.importing # <<>>
                THEN /\ text' = L.app.importing[1].f.text
                     /\ pc' = "start"
                     /\ UNCHANGED <<lines, used_indices, data, found_phones, website_domain,
                                    addr_lines, claimed>>
                ELSE UNCHANGED extractor_vars
    /\ gestures' = gestures + 1
    /\ UNCHANGED <<saved_ids, call_vars, merge_vars>>

\* heuristic_parse has returned into add_from_file: the note "Card Text"
\* is appended, the other pages of a PDF file are saved and listed, the
\* iteration ends and the loop goes on with the files left
ReturnToAddFromFile ==
    /\ pc = "done"
    /\ app.importing # <<>>
    /\ LET job == app.importing[1]
           parsed == [k \in RecordKeys |->
                         IF k \in ContactKeys THEN data[k] ELSE job.new_data[k]]
           pages == IF job.is_pdf THEN [k \in 1..(job.f.pages - 1) |-> PageEntry(job.f, k)]
                    ELSE <<>>
           new_data == [parsed EXCEPT !["Notes Data"] =
                                          Append(@, [name |-> "Card Text", content |-> text]),
                                      !["Image Data"] = @ \o pages]
           S == [app EXCEPT !.importing = <<>>,
                            !.files = @ \cup {pages[k].path : k \in 1..Len(pages)}]
           L == AddFromFileLoop(AddFromFileTail(S, new_data), job.is_pdf, job.rest)
       IN /\ app' = L.app
          /\ log' = log \o L.entries
          /\ imported_ids' = imported_ids \cup IdsOf(L.entries)
          /\ text' = IF L.app.importing # <<>> THEN L.app.importing[1].f.text ELSE ""
          /\ pc' = IF L.app.importing # <<>> THEN "start" ELSE "idle"
    /\ lines' = <<>>
    /\ used_indices' = {}
    /\ data' = EmptyData
    /\ found_phones' = <<>>
    /\ website_domain' = ""
    /\ addr_lines' = <<>>
    /\ claimed' = [p \in PassNames |-> {}]
    /\ UNCHANGED <<saved_ids, gestures, call_vars, merge_vars>>

\* the positions an editor can have in open_editors: a gesture opens two
\* editors at most
Editors == 1..(2 * MaxGestures)

InitApp == ExtractorIdle /\ CallsIdle /\ MergeIdle /\ AppIdle

NextApp ==
    \/ Next
    \/ ReturnToAddFromFile
    \/ \E f \in ImportFiles : ClickAddFromFile(FALSE, <<f>>)
    \/ ClickAddNew
    \/ DoubleClickContact
    \/ ClickDeleteSelected
    \/ \E i \in Editors :
          \/ TypeField(i)
          \/ TypeNote(i)
          \/ ClickPlusTab(i)
          \/ NoteTabMenu(i)
          \/ ClickAddImage(i)
          \/ ImgTabMenu(i)
          \/ ClickSave(i)
          \/ ClickCancel(i)
          \/ ClickDelete(i)

SpecApp == InitApp /\ [][NextApp]_vars

\* the imports of one file or several, images or PDF files, and the
\* buttons of the editors they open
NextImport ==
    \/ Next
    \/ ReturnToAddFromFile
    \/ \E sel \in ImageSelections : ClickAddFromFile(FALSE, sel)
    \/ \E sel \in PdfSelections : ClickAddFromFile(TRUE, sel)
    \/ \E i \in Editors :
          \/ ClickSave(i)
          \/ ClickCancel(i)

SpecImport == InitApp /\ [][NextImport]_vars

\* two editors are open on the stored contact, and the user has typed a
\* first name into the first and a company into the second
OverlapApp ==
    LET S == OpenEditorData(OpenEditorData(StartApp, 1, FALSE), 1, FALSE)
    IN [S EXCEPT !.open_editors[1].inputs["First Name"] = "Ann ",
                 !.open_editors[2].inputs["Company"] = "Ann "]

InitOverlap ==
    /\ ExtractorIdle
    /\ CallsIdle
    /\ MergeIdle
    /\ app = OverlapApp
    /\ saved_ids = {}
    /\ imported_ids = {}
    /\ log = <<>>
    /\ gestures = 0

SpecOverlap == InitOverlap /\ [][NextApp]_vars

\* ------------------------------------------------------------------------
\* Properties
\* ------------------------------------------------------------------------

\* the passes that have run
EmailDone == pc \notin {"start", "email"}
PhoneDone == pc \notin {"start", "email", "phone"}
AddressDone == pc \in {"job_title", "company", "name", "done"}

LineIndices == 1..Len(lines)

SetMin(S) == CHOOSE x \in S : \A y \in S : x <= y
SetMax(S) == CHOOSE x \in S : \A y \in S : x >= y

\* C1: for the seven-line scenario text the extractor returns Jane / Doe /
\* Senior Engineer / Acme Corp / jane.doe@acme.com, the sole phone as
\* mobile_phone, no business_phone, and the two address lines joined by a
\* newline.
C1_ScenarioRecord ==
    (pc = "done" /\ text = ScenarioText) =>
        data = [EmptyData EXCEPT !["First Name"] = "Jane",
                                 !["Last Name"] = "Doe",
                                 !["Job Title"] = "Senior Engineer",
                                 !["Company"] = "Acme Corp",
                                 !["E-mail Address"] = "jane.doe@acme.com",
                                 !["Mobile Phone"] = "(555) 123-4567",
                                 !["Business Phone"] = "",
                                 !["Address"] = "123 Main St\nSpringfield, IL 62701"]

\* the lines no pass before the address pass has marked used
FreeForAddress ==
    LineIndices \ (claimed["email"] \cup claimed["phone"] \cup claimed["url"])

\* the ZIP lines among them
FreeZipLines == {i \in FreeForAddress : ReSearch(zip_re, lines[i], 1) # <<>>}

\* C2: whenever an unused line contains a ZIP pattern, the city/state/zip
\* line of the address is the first such line, even if an earlier unused
\* line has an address keyword token and a digit.
C2_ZipBeforeKeywordFallback ==
    (AddressDone /\ FreeZipLines # {}) =>
        /\ addr_lines # <<>>
        /\ addr_lines[Len(addr_lines)] = lines[SetMin(FreeZipLines)]
        /\ data["Address"] = StrJoin("\n", addr_lines)

\* the lines with an email match
EmailLines == {i \in LineIndices : ReSearch(email_re, lines[i], 1) # <<>>}

\* the first email match of line i
FirstEmailOf(i) == Group0(lines[i], ReSearch(email_re, lines[i], 1))

\* C3 as stated: when several lines contain an email address, the email
\* field is the first match of the topmost such line.
C3_TopmostEmailWins ==
    (EmailDone /\ Cardinality(EmailLines) >= 2) =>
        data["E-mail Address"] = FirstEmailOf(SetMin(EmailLines))

\* C3 as amended: when several lines contain an email address, the email
\* field is the first match of the bottommost such line.
C3_BottommostEmailWins ==
    (EmailDone /\ Cardinality(EmailLines) >= 2) =>
        data["E-mail Address"] = FirstEmailOf(SetMax(EmailLines))

\* two email lines with different addresses: the lower one is in the field
C3_Witness ==
    /\ pc = "done"
    /\ Cardinality(EmailLines) >= 2
    /\ FirstEmailOf(SetMin(EmailLines)) # FirstEmailOf(SetMax(EmailLines))
    /\ data["E-mail Address"] = FirstEmailOf(SetMax(EmailLines))

\* the context tokens of the phone pass, as the specification lists them
MobileTokens == <<"m:", "mob", "cell", "c:">>
BusinessTokens == <<"o:", "off", "t:", "tel", "d:", "dir", "ph">>
FaxTokens == <<"f:", "fax">>

\* the phone matches of line i, each as <<line index, <<start, end>>>>
PhoneMatchesOf(i) ==
    LET ms == ReFindIter(phone_re, lines[i], 1)
    IN {<<i, ms[k]>> : k \in 1..Len(ms)}

\* the phone matches of the text
PhoneMatches == UNION {PhoneMatchesOf(i) : i \in LineIndices}

\* x comes before y in the text
MatchBefore(x, y) == x[1] < y[1] \/ (x[1] = y[1] /\ x[2][1] < y[2][1])

\* the matched number, and the lower-cased text before it on its line
NumberOf(x) == Group0(lines[x[1]], x[2])
ContextOf(x) == StrLower(SubSeq(lines[x[1]], 1, x[2][1] - 1))

HasMobileToken(x) == AnySubstringIn(MobileTokens, ContextOf(x))
HasBusinessToken(x) == AnySubstringIn(BusinessTokens, ContextOf(x))
HasFaxToken(x) == AnySubstringIn(FaxTokens, ContextOf(x))

\* the context classes among the matches P, mobile before business before
\* fax
MobileIn(P) == {x \in P : HasMobileToken(x)}
BusinessIn(P) == {x \in P : ~HasMobileToken(x) /\ HasBusinessToken(x)}
FaxIn(P) == {x \in P : ~HasMobileToken(x) /\ ~HasBusinessToken(x) /\ HasFaxToken(x)}
UnknownIn(P) ==
    {x \in P : ~HasMobileToken(x) /\ ~HasBusinessToken(x) /\ ~HasFaxToken(x)}

FirstOf(S) == CHOOSE x \in S : \A y \in S : x = y \/ MatchBefore(x, y)
LastOf(S) == CHOOSE x \in S : \A y \in S : x = y \/ MatchBefore(y, x)

\* C4: if exactly one non-fax phone number is found in the whole text, it
\* is stored in mobile_phone whatever its context, and business_phone stays
\* empty; fax numbers do not count.
C4_SoleNumberIsMobile ==
    PhoneDone =>
        LET P == PhoneMatches
            kept == P \ FaxIn(P)
        IN Cardinality(kept) = 1 =>
               /\ data["Mobile Phone"] = NumberOf(FirstOf(kept))
               /\ data["Business Phone"] = ""

\* a sole business-context number next to a fax number is in mobile_phone
C4_Witness ==
    /\ pc = "done"
    /\ LET P == PhoneMatches
           kept == P \ FaxIn(P)
       IN /\ Cardinality(kept) = 1
          /\ kept = BusinessIn(P)
          /\ kept # P
          /\ data["Mobile Phone"] = NumberOf(FirstOf(kept))
          /\ data["Business Phone"] = ""

\* s ends with suffix
EndsWith(str, suffix) ==
    Len(str) >= Len(suffix) /\ SubSeq(str, Len(str) - Len(suffix) + 1, Len(str)) = suffix

\* the match x directly follows label on its line
PrecededBy(x, label) == EndsWith(StrStrip(SubSeq(lines[x[1]], 1, x[2][1] - 1)), label)

\* P is exactly two phone numbers, c after "Cell:" and o after "Office:"
CellAndOffice(P, c, o) ==
    /\ P = {c, o}
    /\ c # o
    /\ PrecededBy(c, "Cell:")
    /\ PrecededBy(o, "Office:")

\* with two or more non-fax numbers, the last number of a type wins
LastOfTypeWins(P) ==
    LET mobile == MobileIn(P)
        business == BusinessIn(P)
    IN Cardinality(P \ FaxIn(P)) >= 2 =>
           /\ mobile # {} => data["Mobile Phone"] = NumberOf(LastOf(mobile))
           /\ business # {} => data["Business Phone"] = NumberOf(LastOf(business))

\* C5 as stated: a Cell: number and an Office: number, in either order, on
\* separate lines or on one line, end in mobile_phone and business_phone;
\* with two or more non-fax numbers the last of a type wins.
C5_CellAndOfficeAnywhere ==
    PhoneDone =>
        LET P == PhoneMatches
        IN /\ \A c \in P, o \in P :
                  CellAndOffice(P, c, o) =>
                      /\ data["Mobile Phone"] = NumberOf(c)
                      /\ data["Business Phone"] = NumberOf(o)
           /\ LastOfTypeWins(P)

\* C5 as amended: the same, provided the text before the Office: number on
\* its line has no mobile token (so not "Cell: X Office: Y" on one line,
\* where both numbers are mobile-context, the second one is stored in
\* mobile_phone and business_phone stays empty).
C5_CellAndOfficeApart ==
    PhoneDone =>
        LET P == PhoneMatches
        IN /\ \A c \in P, o \in P :
                  CellAndOffice(P, c, o) =>
                      IF HasMobileToken(o)
                      THEN /\ data["Mobile Phone"] = NumberOf(LastOf({c, o}))
                           /\ data["Business Phone"] = ""
                      ELSE /\ data["Mobile Phone"] = NumberOf(c)
                           /\ data["Business Phone"] = NumberOf(o)
           /\ LastOfTypeWins(P)

\* Office: and Cell: on one line in that order: both are stored by type
C5_Witness ==
    /\ pc = "done"
    /\ LET P == PhoneMatches
       IN \E c \in P, o \in P :
              /\ CellAndOffice(P, c, o) /\ c[1] = o[1] /\ MatchBefore(o, c)
              /\ data["Mobile Phone"] = NumberOf(c)
              /\ data["Business Phone"] = NumberOf(o)

\* the k-th match of S in text order
NthOf(S, k) == CHOOSE x \in S : Cardinality({y \in S : MatchBefore(y, x)}) = k - 1

\* with two or more non-fax numbers, typed numbers are never replaced by
\* unknown ones, and the first unknown number fills mobile_phone, or
\* business_phone when mobile_phone is taken
FirstUnknownBackfills(mobile, business, unknown) ==
    /\ (mobile = {} /\ unknown # {}) => data["Mobile Phone"] = NumberOf(NthOf(unknown, 1))
    /\ (mobile # {} /\ business = {} /\ unknown # {}) =>
           data["Business Phone"] = NumberOf(NthOf(unknown, 1))
    /\ mobile # {} => data["Mobile Phone"] = NumberOf(LastOf(mobile))
    /\ business # {} => data["Business Phone"] = NumberOf(LastOf(business))

\* C6 as stated: with two or more non-fax numbers, unknown-context numbers
\* backfill mobile_phone and then business_phone, each only if still empty;
\* two unknown numbers and no typed one give mobile_phone = the first and
\* business_phone = the second.
C6_UnknownsFillBoth ==
    PhoneDone =>
        LET P == PhoneMatches
            mobile == MobileIn(P)
            business == BusinessIn(P)
            unknown == UnknownIn(P)
        IN Cardinality(P \ FaxIn(P)) >= 2 =>
               /\ FirstUnknownBackfills(mobile, business, unknown)
               /\ (mobile = {} /\ business = {}) =>
                      data["Business Phone"] = NumberOf(NthOf(unknown, 2))

\* C6 as amended: only the first unknown-context number is used, for
\* mobile_phone if that is still empty and otherwise for business_phone if
\* that is still empty; two unknown numbers and no typed one give
\* mobile_phone = the first and leave business_phone empty.
C6_FirstUnknownOnly ==
    PhoneDone =>
        LET P == PhoneMatches
            mobile == MobileIn(P)
            business == BusinessIn(P)
            unknown == UnknownIn(P)
        IN Cardinality(P \ FaxIn(P)) >= 2 =>
               /\ FirstUnknownBackfills(mobile, business, unknown)
               /\ (mobile = {} /\ business = {}) => data["Business Phone"] = ""

\* two unknown numbers and nothing else: the second one is dropped
C6_Witness ==
    /\ pc = "done"
    /\ LET P == PhoneMatches
       IN /\ Cardinality(P) = 2
          /\ UnknownIn(P) = P
          /\ data["Mobile Phone"] = NumberOf(NthOf(P, 1))
          /\ data["Business Phone"] = ""

\* C7: a phone match whose preceding text has a fax token and no mobile or
\* business token is discarded: found_phones holds the other matches only,
\* and each phone field is empty or the number of one of those.
C7_FaxNeverStored ==
    pc # "start" =>
        LET P == PhoneMatches
            numbers == {NumberOf(x) : x \in P \ FaxIn(P)}
        IN /\ PhoneDone => Len(found_phones) = Cardinality(P \ FaxIn(P))
           /\ \A i \in 1..Len(found_phones) : found_phones[i][2] \in numbers
           /\ data["Mobile Phone"] \in numbers \cup {""}
           /\ data["Business Phone"] \in numbers \cup {""}

\* a fax number next to a kept number: the fax number is in no field
C7_Witness ==
    /\ pc = "done"
    /\ data["Mobile Phone"] # ""
    /\ LET fax == FaxIn(PhoneMatches)
       IN /\ fax # {}
          /\ \A x \in fax :
                 NumberOf(x) \notin {data["Mobile Phone"], data["Business Phone"]}

HasAddressKeyword(i) == AnyTokenIn(addr_keywords, StrSplit(StrLower(lines[i])))

\* C9: if no line contains a ZIP pattern and no line contains an address
\* keyword token, the address is empty.
C9_NoZipNoKeywordNoAddress ==
    (AddressDone /\ \A i \in LineIndices :
                        ReSearch(zip_re, lines[i], 1) = <<>> /\ ~HasAddressKeyword(i)) =>
        data["Address"] = ""

\* a text with digits but neither ZIP nor keyword: no address
C9_Witness ==
    /\ pc = "done"
    /\ \E i \in LineIndices : HasDigit(lines[i]) /\ i \notin claimed["phone"]
    /\ \A i \in LineIndices :
           ReSearch(zip_re, lines[i], 1) = <<>> /\ ~HasAddressKeyword(i)
    /\ data["Address"] = ""

\* the passes that skip used lines, in their order
PassOrder == <<"email", "url", "address", "job_title", "company", "name">>

\* line l passes the test of the k-th of these passes
Qualifies(k, l) ==
    CASE k = 1 -> ReSearch(email_re, l, 1) # <<>>
      [] k = 2 -> ReSearch(url_re, l, 1) # <<>>
      [] k = 3 -> ReSearch(zip_re, l, 1) # <<>>
                  \/ (AnyTokenIn(addr_keywords, StrSplit(StrLower(l))) /\ HasDigit(l))
      [] k = 4 -> AnySubstringIn(titles, StrLower(l)) /\ Len(StrSplit(l)) < 7
      [] k = 5 -> AnyTokenIn(company_suffixes, StrSplit(StrLower(l)))
      [] k = 6 -> Len(StrSplit(l)) <= 4 /\ ~HasDigit(l) /\ Len(l) > 2

\* each line index is claimed by at most one of the six passes, and none
\* of address, job title, company and name claims a phone line
ClaimedOnce ==
    /\ \A j \in 1..6, k \in 1..6 :
           j # k => claimed[PassOrder[j]] \cap claimed[PassOrder[k]] = {}
    /\ \A k \in 3..6 : claimed[PassOrder[k]] \cap claimed["phone"] = {}
    /\ \A k \in 1..6 : claimed[PassOrder[k]] \subseteq used_indices
    /\ claimed["phone"] \subseteq used_indices

\* C10 as stated: lines are claimed once, never from a phone line, and a
\* line that qualifies for several passes is claimed by the earliest one.
C10_EarliestPassClaims ==
    /\ ClaimedOnce
    /\ \A k \in 1..6 : \A i \in claimed[PassOrder[k]] : \A j \in 1..(k - 1) :
           ~Qualifies(j, lines[i])

\* C10 as amended: lines are claimed once, never from a phone line, and a
\* line claimed by one pass qualifies for an earlier pass only if that pass
\* is one of address, job title and company, which stop at their first
\* match, and it has claimed a line above.
C10_EarlierPassTookAnotherLine ==
    /\ ClaimedOnce
    /\ \A k \in 1..6 : \A i \in claimed[PassOrder[k]] : \A j \in 1..(k - 1) :
           Qualifies(j, lines[i]) =>
               /\ j \in 3..5
               /\ \E h \in claimed[PassOrder[j]] : h < i

\* a title line below the job title goes to the company pass
C10_Witness ==
    /\ pc = "done"
    /\ \E i \in claimed["company"] :
           /\ Qualifies(4, lines[i])
           /\ \E h \in claimed["job_title"] : h < i

\* the lines that are unused when the k-th pass of PassOrder starts
FreeAt(k) ==
    LineIndices \ (UNION {claimed[PassOrder[j]] : j \in 1..(k - 1)}
                      \cup (IF k >= 2 THEN claimed["phone"] ELSE {}))

\* the k-th pass of PassOrder finds no qualifying line
FindsNone(k) == \A i \in FreeAt(k) : ~Qualifies(k, lines[i])

\* C11: the extractor is total: every pass of every input text, the empty
\* text and texts of blank lines included, has a value, so that the call
\* returns a record; in the result a field whose pass finds no qualifying line
\* is the empty string (for the company, no suffix line and no domain from
\* a URL line); for an input without non-blank lines every field is empty.
C11_TotalAndEmptyByDefault ==
    /\ DOMAIN HeuristicParse(text, EmptyData) = ContactKeys
    /\ pc = "done" =>
           /\ DOMAIN data = ContactKeys
           /\ FindsNone(1) => data["E-mail Address"] = ""
           /\ (LET P == PhoneMatches
               IN MobileIn(P) \cup BusinessIn(P) \cup UnknownIn(P) = {}) =>
                  data["Mobile Phone"] = "" /\ data["Business Phone"] = ""
           /\ FindsNone(3) => data["Address"] = ""
           /\ FindsNone(4) => data["Job Title"] = ""
           /\ (FindsNone(5) /\ FindsNone(2)) => data["Company"] = ""
           /\ FindsNone(6) => data["First Name"] = "" /\ data["Last Name"] = ""
           /\ NonBlankLines(text) = <<>> => data = EmptyData

\* a text of blank lines only has run through all the passes: no field is
\* set
C11_Witness ==
    /\ pc = "done"
    /\ text # ""
    /\ lines = <<>>
    /\ data = EmptyData

\* the calls that have returned
Returned == {c \in Calls : calls[c].pc = "done"}

\* C12: the result is a function of the text alone: two calls that have
\* returned for the same text hold equal contact fields, whatever calls
\* came before them and whatever the other caller is doing.
C12_SameTextSameFields ==
    \A c \in Returned, d \in Returned :
        calls[c].text = calls[d].text => calls[c].data = calls[d].data

\* both callers have returned for the same text, with a name found
C12_Witness ==
    /\ Returned = Calls
    /\ calls[1].text = calls[2].text
    /\ calls[1].data["First Name"] # ""
    /\ calls[1].data = calls[2].data

\* C13: extractions share no state: however the passes of two calls are
\* interleaved, a call returns the record that heuristic_parse returns for
\* its text when run alone.
C13_InterleavedAsAlone ==
    \A c \in Returned : calls[c].data = HeuristicParse(calls[c].text, EmptyData)

\* two calls on different texts have returned, each having marked lines
\* used, and each holds the record of its own text
C13_Witness ==
    /\ Returned = Calls
    /\ calls[1].text # calls[2].text
    /\ calls[1].used_indices # {} /\ calls[2].used_indices # {}
    /\ calls[1].data # calls[2].data
    /\ \A c \in Calls : calls[c].data = HeuristicParse(calls[c].text, EmptyData)

\* the email and the phone values of the record d, formatted back into
\* one line
RoundTripLine(d) ==
    StrJoin(" ", SelectSeq(<<d["E-mail Address"], d["Mobile Phone"], d["Business Phone"]>>,
                           LAMBDA v : v # ""))

\* the record extracted from that line
ReExtracted(d) == HeuristicParse(RoundTripLine(d), EmptyData)

\* C14 as stated: the extractor run on the line of R's email and phone
\* values returns R's email, R's mobile_phone and R's business_phone.
C14_RoundTrip ==
    pc = "done" =>
        LET r == ReExtracted(data)
        IN /\ r["E-mail Address"] = data["E-mail Address"]
           /\ r["Mobile Phone"] = data["Mobile Phone"]
           /\ r["Business Phone"] = data["Business Phone"]

\* the record d has no business phone and its email has neither a digit
\* nor the letters "fax"
PlainEmailSoleMobile(d) ==
    /\ d["Business Phone"] = ""
    /\ ~HasDigit(d["E-mail Address"])
    /\ ~StrContains(StrLower(d["E-mail Address"]), "fax")

\* C14 as amended: the extractor run on that line returns R's email; it
\* returns R's mobile_phone and business_phone if R has no business_phone
\* and R's email has neither a digit nor the letters "fax".
C14_RoundTripSoleMobile ==
    pc = "done" =>
        LET r == ReExtracted(data)
        IN /\ r["E-mail Address"] = data["E-mail Address"]
           /\ PlainEmailSoleMobile(data) =>
                  /\ r["Mobile Phone"] = data["Mobile Phone"]
                  /\ r["Business Phone"] = data["Business Phone"]

\* an email and a sole number, found on two lines, are found again on one
C14_Witness ==
    /\ pc = "done"
    /\ Len(lines) = 2
    /\ data["E-mail Address"] # "" /\ data["Mobile Phone"] # ""
    /\ PlainEmailSoleMobile(data)
    /\ ReExtracted(data)["E-mail Address"] = data["E-mail Address"]
    /\ ReExtracted(data)["Mobile Phone"] = data["Mobile Phone"]

\* the merge has reported its draft and its conflicts
Diffed == merge_pc \in {"pending", "final"}

\* the fields of the conflict list
ConflictFields == {conflicts[k][1] : k \in 1..Len(conflicts)}

\* the conflicts as a set of (field, old value, new value)
ConflictSet == {conflicts[k] : k \in 1..Len(conflicts)}

\* the six comparable fields, as the claims list them
Comparable == {"company", "job_title", "email", "mobile_phone", "business_phone", "address"}

\* the trimmed values of f are both non-empty and different
Differ(f) ==
    StrStrip(old[f]) # "" /\ StrStrip(new[f]) # "" /\ StrStrip(old[f]) # StrStrip(new[f])

\* C17: for each comparable field whose trimmed values are both non-empty
\* and different the conflict (field, old value, new value) is reported;
\* the merged record holds old's value until that conflict is resolved, and
\* new's value after the resolution "new".
C17_ConflictReportedAndResolved ==
    Diffed =>
        \A f \in Comparable :
            Differ(f) =>
                /\ <<f, old[f], new[f]>> \in ConflictSet
                /\ resolution[f] = "none" => merged[f] = old[f]
                /\ resolution[f] = "new" => merged[f] = new[f]

\* the emails differ, the conflict is reported and resolved for new
C17_Witness ==
    /\ Diffed
    /\ old["email"] = "a@x.com" /\ new["email"] = "b@x.com"
    /\ <<"email", "a@x.com", "b@x.com">> \in ConflictSet
    /\ resolution["email"] = "new"
    /\ merged["email"] = "b@x.com"

\* C18: a comparable field empty in old and non-empty in new (after
\* trimming) is copied from new without a conflict; a field whose trimmed
\* values are equal keeps its value without a conflict.
C18_AutoFillAndEqual ==
    Diffed =>
        \A f \in Comparable :
            /\ (StrStrip(old[f]) = "" /\ StrStrip(new[f]) # "") =>
                   merged[f] = new[f] /\ f \notin ConflictFields
            /\ StrStrip(old[f]) = StrStrip(new[f]) =>
                   merged[f] = old[f] /\ f \notin ConflictFields

\* the company is filled from new, and the email is equal but for spaces
C18_Witness ==
    /\ merge_pc = "final"
    /\ old["company"] = "" /\ new["company"] = "Acme Inc"
    /\ merged["company"] = "Acme Inc"
    /\ old["email"] # new["email"] /\ StrStrip(old["email"]) = StrStrip(new["email"])
    /\ merged["email"] = old["email"]
    /\ ConflictFields \cap {"company", "email"} = {}

C20_NamesKeptFromOld ==
    Diffed =>
        /\ merged["first_name"] = old["first_name"]
        /\ merged["last_name"] = old["last_name"]
        /\ ConflictFields \cap {"first_name", "last_name"} = {}

\* the names differ, and the merge is final after a resolution for new
C20_Witness ==
    /\ merge_pc = "final"
    /\ old["first_name"] # new["first_name"] /\ old["last_name"] # new["last_name"]
    /\ \E f \in StringFields : resolution[f] = "new"
    /\ merged["first_name"] = old["first_name"]
    /\ merged["last_name"] = old["last_name"]

\* the IDs of the rows of contacts.csv
DiskIds(S) == {S.disk[k]["ID"] : k \in 1..Len(S.disk)}

\* the step is a Cancel of an editor opened by add_from_file
CancelOfImported ==
    \E i \in 1..Len(app.open_editors) : app.open_editors[i].imported /\ ClickCancel(i)

\* C15: a record of an import from file is in the contact list or on disk
\* only if save_contact was invoked on its editor, so that its insertion by
\* save_contact_data follows a Save; and a Cancel of its editor leaves the
\* contact list and contacts.csv as they were.
C15_ImportedOnlyBySave ==
    [][/\ \A id \in imported_ids' :
             id \in ContactIds(app') \cup DiskIds(app') => id \in saved_ids'
       /\ CancelOfImported =>
             ContactRecords(app') = ContactRecords(app) /\ app'.disk = app.disk]_vars

\* an imported record has been saved from its editor and is in the list
\* and on disk
C15_Witness ==
    \E id \in imported_ids \cap saved_ids :
        id \in ContactIds(app) /\ id \in DiskIds(app)

\* the step is an edit in an editor, or its Cancel
EditOrCancel ==
    \E i \in 1..Len(app.open_editors) :
        \/ TypeField(i)
        \/ TypeNote(i)
        \/ ClickPlusTab(i)
        \/ NoteTabMenu(i)
        \/ ClickAddImage(i)
        \/ ImgTabMenu(i)
        \/ ClickCancel(i)

\* C16: no edit made in an editor (field text, note added, renamed or
\* deleted, image entry added, renamed or deleted) and no Cancel changes a
\* record of the contact list or a row of contacts.csv: the editor works on
\* its own copy until Save.
C16_EditorOwnsItsCopy ==
    [][EditOrCancel =>
          ContactRecords(app') = ContactRecords(app) /\ app'.disk = app.disk]_vars

\* an editor is open on a stored contact, its copy has been edited and
\* differs from the stored record, which still is the row on disk
C16_Witness ==
    \E i \in 1..Len(app.open_editors) : \E k \in 1..Len(app.contacts) :
        /\ app.heap[app.contacts[k]]["ID"] = app.heap[app.open_editors[i].data]["ID"]
        /\ app.heap[app.contacts[k]] # app.heap[app.open_editors[i].data]
        /\ app.heap[app.contacts[k]] = app.disk[k]
        /\ app.heap[app.contacts[k]] = StoredRecord

\* the field names a caller can put into a resolution map without their
\* being in the conflict list: the string fields without a conflict and a
\* name no record has
StrayFields == (StringFields \cup {"nickname"}) \ ConflictFields

\* C21: a resolution for a field name that is not in the conflict list is
\* ignored: apply_resolutions has a value for it, and that value is the
\* merged record with every field as it was, auto-filled and equal ones
\* included.
C21_StrayResolutionIgnored ==
    Diffed =>
        \A f \in StrayFields : \A ch \in {"old", "new"} :
            ApplyResolutions(merged, conflicts, [g \in {f} |-> ch]) = merged

\* a choice for the company, which was filled from new without a conflict,
\* has been supplied while the email conflict was pending
C21_Witness ==
    /\ Diffed
    /\ stray = "company"
    /\ "company" \in StrayFields
    /\ old["company"] = "" /\ new["company"] = "Acme Inc"
    /\ merged["company"] = "Acme Inc"
    /\ conflicts # <<>>

\* the ZIP line Method A has selected, as a set: the last line the address
\* pass has marked used, if it has a ZIP pattern
SelectedZipLine ==
    IF claimed["address"] = {} THEN {}
    ELSE {i \in {SetMax(claimed["address"])} : ReSearch(zip_re, lines[i], 1) # <<>>}

\* the line above line i is taken as the street line: there is one, no
\* earlier pass has marked it used, and it has a digit or an address
\* keyword token
StreetAbove(i) ==
    /\ i > 1
    /\ (i - 1) \in FreeForAddress
    /\ HasDigit(lines[i - 1]) \/ HasAddressKeyword(i - 1)

\* C22: when the address pass selects the ZIP line i, the line above is put
\* in front of it and marked used exactly if it exists, was unused and has
\* a digit or an address keyword token; otherwise the address is the ZIP
\* line alone and the pass does not mark the line above; no other line is
\* added to the address.
C22_StreetLineAboveZip ==
    AddressDone =>
        \A i \in SelectedZipLine :
            /\ StreetAbove(i) =>
                   /\ claimed["address"] = {i - 1, i}
                   /\ addr_lines = <<lines[i - 1], lines[i]>>
                   /\ data["Address"] = lines[i - 1] \o "\n" \o lines[i]
            /\ ~StreetAbove(i) =>
                   /\ claimed["address"] = {i}
                   /\ addr_lines = <<lines[i]>>
                   /\ data["Address"] = lines[i]

\* a line with an address keyword and no digit above the selected ZIP line
C22_Witness ==
    /\ pc = "done"
    /\ \E i \in SelectedZipLine :
           /\ StreetAbove(i)
           /\ ~HasDigit(lines[i - 1])
           /\ claimed["address"] = {i - 1, i}

\* the categories of the context tokens in the order of their priority
ContextCategories ==
    <<[name |-> "mobile", tokens |-> MobileTokens],
      [name |-> "business", tokens |-> BusinessTokens],
      [name |-> "fax", tokens |-> FaxTokens]>>

\* the categories with a token in the text before the match x
CategoriesOf(x) ==
    {k \in 1..Len(ContextCategories) :
        AnySubstringIn(ContextCategories[k].tokens, ContextOf(x))}

\* the first of them in the order of priority, "unknown" when there is none
ClassOf(x) ==
    IF CategoriesOf(x) = {} THEN "unknown"
    ELSE ContextCategories[SetMin(CategoriesOf(x))].name

\* C23: the class of a phone match is the first of mobile, business, fax
\* that has a token in the text before the match on its line, and unknown
\* without any token: found_phones holds, in the order of the text, the
\* matches whose class is not fax, each with that class.
C23_ClassByPriority ==
    PhoneDone =>
        LET P == PhoneMatches
            kept == {x \in P : ClassOf(x) # "fax"}
        IN /\ Len(found_phones) = Cardinality(kept)
           /\ \A n \in 1..Len(found_phones) :
                  found_phones[n] = <<ClassOf(NthOf(kept, n)), NumberOf(NthOf(kept, n))>>

\* a number after a business token and a fax token is kept as business,
\* and one after a mobile token and a fax token as mobile
C23_Witness ==
    /\ pc = "done"
    /\ LET P == PhoneMatches
       IN /\ \E x \in P : CategoriesOf(x) = {2, 3}
          /\ \E x \in P : CategoriesOf(x) = {1, 3}
    /\ \E n \in 1..Len(found_phones) : found_phones[n][1] = "business"
    /\ \E n \in 1..Len(found_phones) : found_phones[n][1] = "mobile"

JobTitleDone == pc \in {"company", "name", "done"}

\* line i has a title keyword as a substring
HasTitleKeyword(i) == AnySubstringIn(titles, StrLower(lines[i]))

\* the lines, unused when the job title pass starts, that have a title
\* keyword, with fewer than 7 tokens and with 7 or more
ShortTitleLines == {i \in FreeAt(4) : HasTitleKeyword(i) /\ Len(StrSplit(lines[i])) < 7}
LongTitleLines == {i \in FreeAt(4) : HasTitleKeyword(i) /\ Len(StrSplit(lines[i])) >= 7}

\* C24: job_title is the first unused line that has a title keyword as a
\* substring and fewer than 7 tokens, and the pass marks that line alone;
\* without such a line the field is empty and no line is marked; a keyword
\* line of 7 or more tokens is not marked and is unused when the company
\* pass starts.
C24_FirstShortTitleLine ==
    JobTitleDone =>
        /\ ShortTitleLines # {} =>
               /\ data["Job Title"] = lines[SetMin(ShortTitleLines)]
               /\ claimed["job_title"] = {SetMin(ShortTitleLines)}
        /\ ShortTitleLines = {} =>
               /\ data["Job Title"] = ""
               /\ claimed["job_title"] = {}
        /\ LongTitleLines \subseteq FreeAt(5)

\* a sentence with a title keyword above the title line: the title is the
\* lower line, and the company pass takes the sentence
C24_Witness ==
    /\ pc = "done"
    /\ \E i \in LongTitleLines :
           /\ i < SetMin(ShortTitleLines \cup {Len(lines) + 1})
           /\ ShortTitleLines # {}
           /\ i \in claimed["company"]
           /\ data["Company"] = lines[i]

CompanyDone == pc \in {"name", "done"}

\* the lines, unused when the company pass starts, with a company suffix
\* among their lower-cased tokens
SuffixLines ==
    {i \in FreeAt(5) : AnyTokenIn(company_suffixes, StrSplit(StrLower(lines[i])))}

\* the capitalized domain label of the last line the URL pass has marked,
\* the empty string when it has marked none
CapturedDomain ==
    IF claimed["url"] = {} THEN ""
    ELSE LET l == lines[SetMax(claimed["url"])]
         IN StrCapitalize(UrlGroup3(l, ReSearch(url_re, l, 1)))

\* C25: company is the first unused line with a company suffix among its
\* lower-cased tokens, and the pass marks that line alone; the capitalized
\* domain label of the URL pass is the company only when there is no such
\* line, and no line is marked for it; with neither, company is empty.
C25_SuffixLineThenDomain ==
    CompanyDone =>
        /\ website_domain = CapturedDomain
        /\ SuffixLines # {} =>
               /\ data["Company"] = lines[SetMin(SuffixLines)]
               /\ claimed["company"] = {SetMin(SuffixLines)}
        /\ SuffixLines = {} =>
               /\ data["Company"] = website_domain
               /\ claimed["company"] = {}

\* a URL line and no suffix line: the company is the capitalized label
C25_Witness ==
    /\ pc = "done"
    /\ SuffixLines = {}
    /\ \E i \in claimed["url"] : lines[i] = "www.acme.com"
    /\ website_domain = "Acme"
    /\ data["Company"] = "Acme"

\* the lines, unused when the name pass starts, of at most 4 tokens,
\* without a digit and longer than 2 characters
NameLines ==
    {i \in FreeAt(6) : Len(StrSplit(lines[i])) <= 4 /\ ~HasDigit(lines[i]) /\ Len(lines[i]) > 2}

\* the tokens of the first of them
NameTokens == StrSplit(lines[SetMin(NameLines)])

\* C26: the name is taken from the first line that is unused after the
\* other passes and has at most 4 tokens, no digit and more than 2
\* characters: first_name is its first token and last_name its other
\* tokens joined by single spaces, empty for a line of one token; without
\* such a line both fields are empty.
C26_NameFromFirstFreeLine ==
    pc = "done" =>
        /\ NameLines # {} =>
               /\ data["First Name"] = NameTokens[1]
               /\ data["Last Name"] = StrJoin(" ", Tail(NameTokens))
               /\ Len(NameTokens) = 1 => data["Last Name"] = ""
               /\ claimed["name"] = {SetMin(NameLines)}
        /\ NameLines = {} =>
               /\ data["First Name"] = "" /\ data["Last Name"] = ""
               /\ claimed["name"] = {}

\* a name of four tokens with two spaces in it, below a line of two
\* characters that is not taken
C26_Witness ==
    /\ pc = "done"
    /\ lines = <<"Al", "Mary  Ann van Buren">>
    /\ data["First Name"] = "Mary"
    /\ data["Last Name"] = "Ann van Buren"

\* the records of the contact list with the ID id
StoredWith(id) ==
    {app.heap[app.contacts[k]] : k \in {j \in 1..Len(app.contacts) :
                                            app.heap[app.contacts[j]]["ID"] = id}}

\* C27: two editors are open at the same time on the stored contact, one
\* changes the first name and the other the company, and both are saved,
\* in either order: the stored contact has both changes.
C27_BothEditsStored ==
    (gestures = 2 /\ log = <<<<"save", "c1">>, <<"save", "c1">>>>) =>
        \E c \in StoredWith("c1") : c["First Name"] = "Ann" /\ c["Company"] = "Ann"

\* C28: a contact removed by delete_contact_by_id or delete_selected is
\* not in the contact list in any later state, whatever the editors that
\* were open on it do.
C28_DeletedStaysDeleted ==
    \A k \in 1..Len(log) : log[k][1] = "delete" => log[k][2] \notin ContactIds(app)

\* the paths of the images listed by the contacts of the list
StoredImagePaths ==
    UNION {{app.heap[app.contacts[k]]["Image Data"][j].path :
               j \in 1..Len(app.heap[app.contacts[k]]["Image Data"])} :
           k \in 1..Len(app.contacts)}

\* C29: in every reachable state each image path listed by a contact of
\* the contact list is the path of a file that exists; the application has
\* removed no file that a contact of the list still refers to
C29_StoredImagesExist == StoredImagePaths \subseteq app.files

\* the place in the log L of the last file selected, the number of files
\* selected with it in one choice, and the iterations logged since
LastSelected(L) == SetMax({k \in 1..Len(L) : L[k][1] = "selected"})
SelectedCount(L) ==
    LET p == LastSelected(L)
        b == SetMin({c \in 1..p : \A j \in c..p : L[j][1] = "selected"})
    IN p - b + 1
IterationCount(L) == Len(L) - LastSelected(L)

\* the editor e shows the record of the ID id with an image attached and
\* every contact field empty
EmptyEditorOf(S, e, id) ==
    /\ S.heap[e.data]["ID"] = id
    /\ e.img_tabs # <<>>
    /\ \A f \in ContactKeys : e.inputs[f] = ""

\* C30: when the OCR of a file fails in an import, its images being
\* stored already, the import goes on: in the state the step of the import
\* ends in, an editor is open for that file with its images attached and
\* its contact fields empty, and every file selected has had its iteration
\* or is still waiting for it
C30_OcrFailureDoesNotAbort ==
    [][\A k \in (Len(log) + 1)..Len(log') :
          log'[k][1] = "ocr_failed" =>
             /\ \E i \in 1..Len(app'.open_editors) :
                   EmptyEditorOf(app', app'.open_editors[i], log'[k][2])
             /\ IterationCount(log')
                   + (IF app'.importing = <<>> THEN 0 ELSE Len(app'.importing[1].rest))
                = SelectedCount(log')]_vars

====
